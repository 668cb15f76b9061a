--------------------------- MODULE Heap4_list_proofs ---------------------------
(***************************************************************************)
(* What Heap4 does to the words of an arena, for every arena: what writing *)
(* a header leaves of the others, which nodes a walk of the free list      *)
(* finds, and what relinking it leaves.  The free list is taken as a set:  *)
(* Linked says that the links in the arena lead through it in the order of *)
(* its addresses.                                                          *)
(***************************************************************************)
EXTENDS Heap4, FiniteSetTheorems, SequenceTheorems, WellFoundedInduction, TLAPS

\* What blocks and their sizes are multiples of.
OnGrid(a) == a % ALIGN = 0

\* Where a header can be.
Place == {a \in 0..N : a % ALIGN = 0 /\ InArena(a)}

HeapType ==
    [store : [0..(N \div WORD) - 1 -> 0..WORD_MOD - 1],
     start_next : 0..WORD_MOD - 1,
     end : 0..WORD_MOD - 1,
     free_bytes : Nat,
     minimum_ever_free : Nat,
     allocations : Nat,
     frees : Nat,
     initialised : BOOLEAN,
     next_generation : 0..GENERATION_MOD - 1]

\* Two headers that share no byte.
Clear(a, b) == a + STRUCT_SIZE <= b \/ b + STRUCT_SIZE <= a

\* h2 is h with the header at a changed to these two words, and no other word.
Wrote(h, h2, a, next, size) ==
    /\ h2 \in HeapType
    /\ h2 = [h EXCEPT !.store = h2.store]
    /\ header_of(h2, a) = [next |-> next, size |-> size]
    /\ \A b \in Place : Clear(a, b) => header_of(h2, b) = header_of(h, b)
    /\ \A w \in DOMAIN h.store :
        w \notin {Slot(a, 0), Slot(a, 1)} => h2.store[w] = h.store[w]

\* The links of h lead through F: from start_next, each node to the next higher
\* one, to the end marker, whose link is NONE.
Linked(h, F) ==
    /\ F \subseteq Place
    /\ h.start_next \in F
    /\ h.end \in F
    /\ \A a \in F : h.start_next <= a /\ a <= h.end
    /\ \A a \in F \ {h.end} :
        /\ next_of(h, a) \in F
        /\ a < next_of(h, a)
        /\ \A b \in F : b <= a \/ next_of(h, a) <= b
    /\ next_of(h, h.end) = NONE

\* A walk visits the nodes of F in order, and then NONE.
Visits(walk, h, F) ==
    /\ walk \in Seq(F \cup {NONE})
    /\ Len(walk) >= 2
    /\ walk[1] = h.start_next
    /\ walk[Len(walk)] = NONE
    /\ walk[Len(walk) - 1] = h.end
    /\ \A j \in 1..Len(walk) - 1 : walk[j] \in F /\ walk[j + 1] = next_of(h, walk[j])
    /\ \A i, j \in 1..Len(walk) - 1 : i < j => walk[i] < walk[j]
    /\ \A a \in F : \E j \in 1..Len(walk) - 1 : walk[j] = a

-----------------------------------------------------------------------------
(* Numbers.                                                                *)

\* Every non-empty set of numbers has a least one: the principle all
\* inductions here rest on.
LEMMA LeastNumber ==
    ASSUME NEW T, T \subseteq Nat, T # {}
    PROVE  \E x \in T : \A y \in T : x <= y
<1> DEFINE R == OpToRel(<, Nat)
<1>1. IsWellFoundedOn(R, Nat)
    BY NatLessThanWellFounded
<1>2. \A a, b \in Nat : <<a, b>> \in R <=> a < b
    BY DEF OpToRel
<1> HIDE DEF R
<1>3. PICK x \in T : \A y \in T : ~ (<<y, x>> \in R)
    BY <1>1, WFMin
<1>4. x \in Nat /\ \A y \in T : y \in Nat /\ ~ (y < x)
    BY <1>2, <1>3
<1>5. QED
    BY <1>4

\* Induction up to a bound, over a set.
LEMMA InductionUpTo ==
    ASSUME NEW n \in Nat, NEW S, 0 \in S, \A k \in 0..n - 1 : k \in S => k + 1 \in S
    PROVE  \A k \in 0..n : k \in S
<1> DEFINE T == {k \in 0..n : k \notin S}
<1>1. SUFFICES ASSUME T # {} PROVE FALSE
    OBVIOUS
<1>2. T \subseteq Nat
    OBVIOUS
<1> HIDE DEF T
<1>3. PICK k \in T : \A j \in T : k <= j
    BY <1>1, <1>2, LeastNumber
<1> USE DEF T
<1>4. k \in 1..n /\ k - 1 \in 0..n - 1 /\ k - 1 \in S
    BY <1>3
<1>5. (k - 1) + 1 \in S /\ (k - 1) + 1 = k
    BY <1>4
<1>6. QED
    BY <1>3, <1>5

LEMMA LeastIsMin ==
    ASSUME NEW T, T \subseteq Nat, T # {}
    PROVE  Min(T) \in T /\ \A y \in T : Min(T) <= y
BY LeastNumber DEF Min

\* The header's two words and the alignments GEOMETRY_FITS leaves.
LEMMA Geometry ==
    /\ N \in Nat /\ WORD_MOD \in Nat /\ USIZE_MAX \in Nat
    /\ WORD \in {4, 8}
    /\ STRUCT_SIZE = 2 * WORD
    /\ ALIGN \in {WORD, 2 * WORD}
    /\ ALLOCATED_BIT \in Nat \ {0} /\ WORD_MOD = 2 * ALLOCATED_BIT
    /\ N < ALLOCATED_BIT
    /\ NONE = WORD_MOD - 1
    /\ 2 * N <= USIZE_MAX
    /\ GENERATION_MOD \in 2..WORD_MOD
<1>1. STRUCT_SIZE \in {8, 16} /\ WORD \in {4, 8} /\ STRUCT_SIZE = 2 * WORD
    BY GeometryFits DEF WORD
<1> DEFINE v == IF LINK + ALIGN - 1 > USIZE_MAX THEN USIZE_MAX ELSE LINK + ALIGN - 1
<1>2. v \in Nat /\ ALIGN \in Nat \ {0}
    BY GeometryFits
<1>3. STRUCT_SIZE = v - (v % ALIGN)
    BY DEF STRUCT_SIZE, align_up, align_down
<1> HIDE DEF v
<1>4. /\ v \div ALIGN \in Nat
      /\ v = ALIGN * (v \div ALIGN) + (v % ALIGN)
      /\ v % ALIGN \in 0..ALIGN - 1
    BY <1>2
<1>5. STRUCT_SIZE = ALIGN * (v \div ALIGN) /\ v \div ALIGN > 0
    BY <1>1, <1>2, <1>3, <1>4
<1>6. ALIGN <= STRUCT_SIZE
    BY <1>2, <1>4, <1>5
<1>7. ALIGN % WORD = 0
    BY GeometryFits
<1>8. ALIGN \in {WORD, 2 * WORD}
    BY <1>1, <1>2, <1>6, <1>7
<1>9. QED
    BY <1>1, <1>8, GeometryFits DEF ALLOCATED_BIT, NONE

\* A place's two words are words of the arena; headers that share no byte share
\* no word.
LEMMA PlaceWords ==
    /\ \A a \in Place :
        /\ a \in Nat /\ a + STRUCT_SIZE <= N /\ a < NONE /\ a < ALLOCATED_BIT
        /\ Slot(a, 0) \in 0..(N \div WORD) - 1
        /\ Slot(a, 1) \in 0..(N \div WORD) - 1
        /\ Slot(a, 1) = Slot(a, 0) + 1
        /\ a = WORD * Slot(a, 0)
    /\ \A a, b \in Place :
        /\ a < b => a + ALIGN <= b
        /\ Clear(a, b) => {Slot(a, 0), Slot(a, 1)} \cap {Slot(b, 0), Slot(b, 1)} = {}
<1>1. CASE WORD = 4
    BY <1>1, Geometry DEF Place, InArena, Slot, Clear
<1>2. CASE WORD = 8
    BY <1>2, Geometry DEF Place, InArena, Slot, Clear
<1>3. QED
    BY <1>1, <1>2, Geometry

LEMMA PlaceFacts ==
    \A a \in Place :
        /\ a \in Nat /\ OnGrid(a) /\ InArena(a)
        /\ a + STRUCT_SIZE <= N /\ a <= N
        /\ a < ALLOCATED_BIT /\ a < NONE /\ a # NONE
BY Geometry DEF Place, InArena, OnGrid

LEMMA IsPlace ==
    ASSUME NEW a \in Nat, OnGrid(a), a + STRUCT_SIZE <= N
    PROVE  a \in Place
BY Geometry DEF Place, InArena, OnGrid

-----------------------------------------------------------------------------
(* Writing headers.                                                        *)

LEMMA WroteWord ==
    ASSUME NEW h \in HeapType, NEW a \in Place, NEW word \in {0, 1},
           NEW value \in 0..WORD_MOD - 1
    PROVE  LET h2 == write_word(h, a, word, value)
           IN  /\ h2 \in HeapType
               /\ h2 = [h EXCEPT !.store = h2.store]
               /\ h2.store = [h.store EXCEPT ![Slot(a, word)] = value]
<1>1. value % WORD_MOD = value
    BY Geometry
<1>2. write_word(h, a, word, value) = [h EXCEPT !.store[Slot(a, word)] = value]
    BY <1>1 DEF write_word, Place
<1>3. [h.store EXCEPT ![Slot(a, word)] = value]
        \in [0..(N \div WORD) - 1 -> 0..WORD_MOD - 1]
    BY PlaceWords DEF HeapType
<1>4. QED
    BY <1>2, <1>3 DEF HeapType

LEMMA WroteNext ==
    ASSUME NEW h \in HeapType, NEW a \in Place, NEW value \in 0..WORD_MOD - 1
    PROVE  Wrote(h, set_next(h, a, value), a, value, header_of(h, a).size)
<1> DEFINE h2 == set_next(h, a, value)
<1>1. /\ h2 \in HeapType
      /\ h2 = [h EXCEPT !.store = h2.store]
      /\ h2.store = [h.store EXCEPT ![Slot(a, 0)] = value]
    BY WroteWord DEF set_next
<1> HIDE DEF h2
<1>2. h.store \in [0..(N \div WORD) - 1 -> 0..WORD_MOD - 1]
    BY DEF HeapType
<1>3. header_of(h2, a) = [next |-> value, size |-> header_of(h, a).size]
    <2>1. /\ Slot(a, 0) \in 0..(N \div WORD) - 1
          /\ Slot(a, 1) \in 0..(N \div WORD) - 1
          /\ Slot(a, 1) # Slot(a, 0)
          /\ InArena(a)
        BY PlaceWords DEF Place
    <2>2. QED
        BY <1>1, <1>2, <2>1 DEF header_of
<1>4. ASSUME NEW b \in Place, Clear(a, b)
      PROVE  header_of(h2, b) = header_of(h, b)
    <2>1. Slot(a, 0) # Slot(b, 0) /\ Slot(a, 0) # Slot(b, 1)
        BY <1>4, PlaceWords
    <2>2. QED
        BY <1>1, <1>2, <2>1 DEF header_of
<1>5. \A w \in DOMAIN h.store :
        w \notin {Slot(a, 0), Slot(a, 1)} => h2.store[w] = h.store[w]
    BY <1>1, <1>2
<1>6. QED
    BY <1>1, <1>3, <1>4, <1>5 DEF Wrote, h2

LEMMA WroteSize ==
    ASSUME NEW h \in HeapType, NEW a \in Place, NEW value \in 0..WORD_MOD - 1
    PROVE  Wrote(h, set_raw_size(h, a, value), a, header_of(h, a).next, value)
<1> DEFINE h2 == set_raw_size(h, a, value)
<1>1. /\ h2 \in HeapType
      /\ h2 = [h EXCEPT !.store = h2.store]
      /\ h2.store = [h.store EXCEPT ![Slot(a, 1)] = value]
    BY WroteWord DEF set_raw_size
<1> HIDE DEF h2
<1>2. h.store \in [0..(N \div WORD) - 1 -> 0..WORD_MOD - 1]
    BY DEF HeapType
<1>3. header_of(h2, a) = [next |-> header_of(h, a).next, size |-> value]
    <2>1. /\ Slot(a, 0) \in 0..(N \div WORD) - 1
          /\ Slot(a, 1) \in 0..(N \div WORD) - 1
          /\ Slot(a, 1) # Slot(a, 0)
          /\ InArena(a)
        BY PlaceWords DEF Place
    <2>2. QED
        BY <1>1, <1>2, <2>1 DEF header_of
<1>4. ASSUME NEW b \in Place, Clear(a, b)
      PROVE  header_of(h2, b) = header_of(h, b)
    <2>1. Slot(a, 1) # Slot(b, 0) /\ Slot(a, 1) # Slot(b, 1)
        BY <1>4, PlaceWords
    <2>2. QED
        BY <1>1, <1>2, <2>1 DEF header_of
<1>5. \A w \in DOMAIN h.store :
        w \notin {Slot(a, 0), Slot(a, 1)} => h2.store[w] = h.store[w]
    BY <1>1, <1>2
<1>6. QED
    BY <1>1, <1>3, <1>4, <1>5 DEF Wrote, h2

LEMMA WroteHeader ==
    ASSUME NEW h \in HeapType, NEW a \in Place,
           NEW next \in 0..WORD_MOD - 1, NEW size \in 0..WORD_MOD - 1
    PROVE  Wrote(h, set_header(h, a, next, size), a, next, size)
<1> DEFINE h1 == set_next(h, a, next)
           h2 == set_raw_size(h1, a, size)
<1>1. Wrote(h, h1, a, next, header_of(h, a).size)
    BY WroteNext
<1>2. Wrote(h1, h2, a, header_of(h1, a).next, size)
    BY <1>1, WroteSize DEF Wrote
<1>3. set_header(h, a, next, size) = h2
    BY DEF set_header
<1> HIDE DEF h1, h2
<1>4. h2 = [h EXCEPT !.store = h2.store]
    BY <1>1, <1>2 DEF Wrote, HeapType
<1>5. \A w \in DOMAIN h.store :
        w \notin {Slot(a, 0), Slot(a, 1)} => h2.store[w] = h.store[w]
    BY <1>1, <1>2 DEF Wrote, HeapType
<1>6. QED
    BY <1>1, <1>2, <1>3, <1>4, <1>5 DEF Wrote

-----------------------------------------------------------------------------
(* The walk.                                                               *)

\* What a walk has passed after some hops through F.
Passed(path, h, F, i) ==
    /\ path \in Seq(F \cup {NONE})
    /\ Len(path) \in 1..i + 1
    /\ path[1] = h.start_next
    /\ \A j \in 1..Len(path) : j < Len(path) => path[j] \in F /\ path[j + 1] = next_of(h, path[j])
    /\ path[Len(path)] = NONE =>
        Len(path) >= 2 /\ path[Len(path) - 1] = h.end
    /\ path[Len(path)] # NONE => Len(path) = i + 1
    /\ \A j \in 1..Len(path) : path[j] # NONE => path[j] >= (j - 1) * ALIGN

LEMMA PassedNext ==
    ASSUME NEW h \in HeapType, NEW F, Linked(h, F),
           NEW path, NEW i \in Nat, Passed(path, h, F, i)
    PROVE  LET more == IF Last(path) = NONE THEN path
                       ELSE Append(path, next_of(h, Last(path)))
           IN  path \in Seq(0..NONE) /\ Passed(more, h, F, i + 1)
<1> DEFINE n == Len(path)
           last == path[n]
           next == next_of(h, last)
<1>1. /\ path \in Seq(F \cup {NONE}) /\ n \in 1..i + 1 /\ n \in Nat
      /\ path[1] = h.start_next
      /\ \A j \in 1..n : path[j] \in F \cup {NONE}
      /\ Last(path) = last
    BY DEF Passed, Last
<1>2. F \cup {NONE} \subseteq 0..NONE
    BY PlaceWords, Geometry DEF Linked, Place
<1>3. path \in Seq(0..NONE)
    BY <1>1, <1>2
<1>4. CASE last = NONE
    <2>1. Passed(path, h, F, i + 1)
        BY <1>1, <1>4 DEF Passed
    <2>2. QED
        BY <1>1, <1>3, <1>4, <2>1
<1>5. CASE last # NONE
    <2> DEFINE more == Append(path, next)
    <2>1. last \in F /\ n = i + 1 /\ last >= (n - 1) * ALIGN
        BY <1>1, <1>5 DEF Passed
    <2>2. next \in F \cup {NONE} /\ (next = NONE => last = h.end)
        <3>1. CASE last = h.end
            BY <3>1 DEF Linked
        <3>2. CASE last # h.end
            <4>1. next \in F
                BY <2>1, <3>2 DEF Linked
            <4>2. next # NONE
                BY <4>1, PlaceWords DEF Linked
            <4>3. QED
                BY <4>1, <4>2
        <3>3. QED
            BY <3>1, <3>2
    <2>3. /\ more \in Seq(F \cup {NONE}) /\ Len(more) = n + 1
          /\ \A j \in 1..n : more[j] = path[j]
          /\ more[n + 1] = next
        BY <1>1, <2>2
    <2>4. next # NONE => next >= n * ALIGN
        <3>1. SUFFICES ASSUME next # NONE PROVE next >= n * ALIGN
            OBVIOUS
        <3>2. last \in Place /\ next \in Place /\ last < next
            <4>1. last # h.end
                BY <3>1 DEF Linked
            <4>2. QED
                BY <2>1, <4>1 DEF Linked
        <3>3. last + ALIGN <= next
            BY <3>2, PlaceWords
        <3>4. (n - 1) * ALIGN + ALIGN = n * ALIGN
            BY <1>1, Geometry
        <3>5. last \in Nat /\ next \in Nat
            BY <3>2, Geometry DEF Place
        <3>6. ALIGN \in Int /\ n - 1 \in Int /\ (n - 1) * ALIGN \in Int
            BY <1>1, Geometry
        <3>7. QED
            BY <2>1, <3>3, <3>4, <3>5, <3>6
    <2>5. \A j \in 1..n + 1 : j < n + 1 => more[j] \in F /\ more[j + 1] = next_of(h, more[j])
        <3>1. SUFFICES ASSUME NEW j \in 1..n PROVE more[j] \in F /\ more[j + 1] = next_of(h, more[j])
            OBVIOUS
        <3>2. CASE j = n
            BY <2>1, <2>3, <3>2
        <3>3. CASE j < n
            BY <1>1, <2>3, <3>3 DEF Passed
        <3>4. QED
            BY <3>2, <3>3
    <2>6. \A j \in 1..n + 1 : more[j] # NONE => more[j] >= (j - 1) * ALIGN
        <3>1. SUFFICES ASSUME NEW j \in 1..n + 1, more[j] # NONE
                       PROVE  more[j] >= (j - 1) * ALIGN
            OBVIOUS
        <3>2. CASE j = n + 1
            <4>1. (n + 1) - 1 = n
                BY <1>1
            <4>2. QED
                BY <2>3, <2>4, <3>1, <3>2, <4>1
        <3>3. CASE j <= n
            BY <1>1, <2>3, <3>1, <3>3 DEF Passed
        <3>4. QED
            BY <1>1, <3>2, <3>3
    <2>7. more[1] = h.start_next /\ Len(more) \in 1..(i + 1) + 1
        BY <1>1, <2>3
    <2>8. more[Len(more)] = NONE => Len(more) >= 2 /\ more[Len(more) - 1] = h.end
        BY <1>1, <2>2, <2>3
    <2>9. more[Len(more)] # NONE => Len(more) = (i + 1) + 1
        BY <2>1, <2>3
    <2> HIDE DEF more
    <2>10. Passed(more, h, F, i + 1)
        BY <2>3, <2>5, <2>6, <2>7, <2>8, <2>9 DEF Passed
    <2>11. QED
        BY <1>1, <1>3, <1>5, <2>10 DEF more
<1>6. QED
    BY <1>4, <1>5

\* The walk's recursive definition has its value at every hop.
LEMMA WalkPath ==
    ASSUME NEW h \in HeapType, NEW F, Linked(h, F)
    PROVE  Passed(Walk(h), h, F, Hops)
<1> DEFINE follow == [visited \in Seq(0..NONE) |->
                        IF Last(visited) = NONE THEN visited
                        ELSE Append(visited, next_of(h, Last(visited)))]
           IsPath(p, k) ==
                p = [i \in 0..k |-> IF i = 0 THEN <<h.start_next>> ELSE follow[p[i - 1]]]
           S == {k \in Nat : \E p : IsPath(p, k)}
<1>1. Hops \in Nat
    BY Geometry DEF Hops
<1>2. 0 \in S
    <2>1. IsPath([i \in 0..0 |-> <<h.start_next>>], 0)
        OBVIOUS
    <2>2. QED
        BY <2>1
<1>3. ASSUME NEW k \in 0..Hops - 1, k \in S PROVE k + 1 \in S
    <2>1. PICK p : IsPath(p, k)
        BY <1>3
    <2> DEFINE q == [i \in 0..k + 1 |-> IF i <= k THEN p[i] ELSE follow[p[k]]]
    <2>2. q = [i \in 0..k + 1 |-> IF i = 0 THEN <<h.start_next>> ELSE follow[q[i - 1]]]
        <3> HIDE DEF follow
        <3>1. ASSUME NEW i \in 0..k + 1
              PROVE  q[i] = IF i = 0 THEN <<h.start_next>> ELSE follow[q[i - 1]]
            <4>1. CASE i = 0
                BY <2>1, <4>1
            <4>2. CASE i \in 1..k
                BY <2>1, <4>2
            <4>3. CASE i = k + 1
                BY <2>1, <4>3
            <4>4. QED
                BY <4>1, <4>2, <4>3
        <3>2. QED
            BY <3>1
    <2>3. IsPath(q, k + 1)
        BY <2>2
    <2> HIDE DEF q, IsPath
    <2>4. QED
        BY <2>3
<1>4. Hops \in S
    <2> HIDE DEF S
    <2>1. \A k \in 0..Hops : k \in S
        BY <1>1, <1>2, <1>3, InductionUpTo
    <2>2. QED
        BY <1>1, <2>1
<1> DEFINE path == CHOOSE p : IsPath(p, Hops)
<1>5. IsPath(path, Hops)
    <2>1. \E p : IsPath(p, Hops)
        BY <1>4
    <2> HIDE DEF IsPath
    <2>2. QED
        BY <2>1
<1>6. Walk(h) = path[Hops]
    BY DEF Walk
<1> HIDE DEF path
<1> DEFINE G == {k \in Nat : Passed(path[k], h, F, k)}
<1>7. path[0] = <<h.start_next>> /\ \A k \in 1..Hops : path[k] = follow[path[k - 1]]
    <2> HIDE DEF follow
    <2>1. QED
        BY <1>1, <1>5
<1>8. 0 \in G
    <2>1. h.start_next \in Place /\ h.start_next \in F /\ h.start_next # NONE
        BY PlaceWords DEF Linked
    <2>2. h.start_next \in Nat /\ (1 - 1) * ALIGN = 0
        BY <2>1, Geometry DEF Place
    <2>3. Passed(<<h.start_next>>, h, F, 0)
        BY <2>1, <2>2 DEF Passed
    <2>4. QED
        BY <1>7, <2>3
<1>9. ASSUME NEW k \in 0..Hops - 1, k \in G PROVE k + 1 \in G
    <2>1. Passed(path[k], h, F, k) /\ k \in Nat
        BY <1>9
    <2> DEFINE more == IF Last(path[k]) = NONE THEN path[k]
                       ELSE Append(path[k], next_of(h, Last(path[k])))
    <2>2. path[k] \in Seq(0..NONE) /\ Passed(more, h, F, k + 1)
        BY <2>1, PassedNext
    <2>3. path[k + 1] = follow[path[k]]
        <3> HIDE DEF follow
        <3>1. k + 1 \in 1..Hops /\ (k + 1) - 1 = k
            BY <1>1
        <3>2. QED
            BY <1>7, <3>1
    <2>4. path[k + 1] = more
        BY <2>2, <2>3
    <2>5. QED
        BY <2>2, <2>4, <2>1
<1>10. Hops \in G
    <2> HIDE DEF G
    <2>1. \A k \in 0..Hops : k \in G
        BY <1>1, <1>8, <1>9, InductionUpTo
    <2>2. QED
        BY <1>1, <2>1
<1>11. QED
    BY <1>6, <1>10

\* Every walk of a linked list visits its nodes in order and ends.
LEMMA WalkVisits ==
    ASSUME NEW h \in HeapType, NEW F, Linked(h, F)
    PROVE  Visits(Walk(h), h, F)
<1> DEFINE w == Walk(h)
           n == Len(w)
<1>1. Passed(w, h, F, Hops)
    BY WalkPath
<1> HIDE DEF w
<1>2. /\ w \in Seq(F \cup {NONE}) /\ n \in Nat \ {0} /\ w[1] = h.start_next
      /\ \A j \in 1..n : w[j] \in F \cup {NONE}
      /\ \A j \in 1..n - 1 : w[j] \in F /\ w[j + 1] = next_of(h, w[j])
    BY <1>1 DEF Passed
<1>3. F \subseteq Place /\ NONE \notin F /\ F \subseteq Nat
    BY PlaceWords DEF Linked
<1>4. w[n] = NONE
    <2>1. SUFFICES ASSUME w[n] # NONE PROVE FALSE
        OBVIOUS
    <2>2. n = Hops + 1 /\ w[n] >= (n - 1) * ALIGN /\ w[n] \in Place
        BY <1>1, <1>2, <1>3, <2>1 DEF Passed
    <2>3. w[n] + STRUCT_SIZE <= N /\ w[n] \in Nat
        BY <2>2, Geometry DEF Place, InArena
    <2>4. Hops * ALIGN > N - ALIGN
        <3>1. CASE ALIGN = 4
            BY <3>1, Geometry DEF Hops
        <3>2. CASE ALIGN = 8
            BY <3>2, Geometry DEF Hops
        <3>3. CASE ALIGN = 16
            BY <3>3, Geometry DEF Hops
        <3>4. QED
            BY <3>1, <3>2, <3>3, Geometry
    <2>5. n - 1 = Hops /\ w[n] >= Hops * ALIGN /\ Hops * ALIGN \in Int
        <3>1. Hops \in Nat /\ ALIGN \in Nat
            BY Geometry DEF Hops
        <3>2. QED
            BY <2>2, <3>1
    <2>6. QED
        BY <2>3, <2>4, <2>5, Geometry
<1>5. n >= 2 /\ w[n - 1] = h.end
    BY <1>1, <1>4 DEF Passed
<1>6. ASSUME NEW j \in 1..n - 2 PROVE w[j] # h.end /\ w[j] < w[j + 1]
    <2>1. w[j] \in F /\ w[j + 1] \in F /\ w[j + 1] = next_of(h, w[j])
        BY <1>2
    <2>2. w[j] # h.end
        BY <1>3, <2>1 DEF Linked
    <2>3. QED
        BY <2>1, <2>2 DEF Linked
<1>7. ASSUME NEW i \in 1..n - 1, NEW j \in 1..n - 1, i < j
      PROVE  w[i] < w[j]
    <2> DEFINE T == {k \in 1..n - 1 : i < k /\ ~ (w[i] < w[k])}
    <2>1. SUFFICES ASSUME T # {} PROVE FALSE
        BY <1>7
    <2>2. T \subseteq Nat
        OBVIOUS
    <2> HIDE DEF T
    <2>3. PICK k \in T : \A y \in T : k <= y
        BY <2>1, <2>2, LeastNumber
    <2> USE DEF T
    <2>4. k - 1 \in 1..n - 2 /\ k - 1 \notin T /\ k \in Nat
        BY <1>2, <2>3
    <2>5. w[k - 1] < w[k]
        BY <1>6, <2>4
    <2>6. k \in 1..n - 1 /\ k - 1 \in 1..n - 1 /\ i < k /\ ~ (w[i] < w[k])
        BY <1>2, <2>3, <2>4
    <2>7. w[i] \in Nat /\ w[k - 1] \in Nat /\ w[k] \in Nat
        BY <1>2, <1>3, <2>6
    <2>8. i = k - 1 \/ w[i] < w[k - 1]
        BY <2>4, <2>6
    <2>9. QED
        BY <2>5, <2>6, <2>7, <2>8
<1>8. ASSUME NEW a \in F PROVE \E j \in 1..n - 1 : w[j] = a
    <2> DEFINE T == {k \in 1..n - 1 : a <= w[k]}
    <2>1. n - 1 \in T
        BY <1>2, <1>5 DEF Linked
    <2>2. T \subseteq Nat
        OBVIOUS
    <2> HIDE DEF T
    <2>3. PICK k \in T : \A y \in T : k <= y
        BY <2>1, <2>2, LeastNumber
    <2> USE DEF T
    <2>4. CASE k = 1
        <3>1. w[k] <= a /\ a <= w[k] /\ w[k] \in Nat /\ a \in Nat
            BY <1>2, <1>3, <2>3, <2>4 DEF Linked
        <3>2. QED
            BY <2>3, <3>1
    <2>5. CASE k > 1
        <3>1. k - 1 \in 1..n - 2 /\ k - 1 \in 1..n - 1 /\ k - 1 \notin T
            BY <1>2, <2>3, <2>5
        <3>2. w[k - 1] < a /\ w[k - 1] \in F /\ w[k - 1] # h.end
            <4>1. w[k - 1] \in F /\ w[k - 1] # h.end
                BY <1>2, <1>6, <3>1
            <4>2. w[k - 1] \in Nat /\ a \in Nat /\ ~ (a <= w[k - 1])
                BY <1>3, <3>1, <4>1
            <4>3. QED
                BY <4>1, <4>2
        <3>3. w[k] = next_of(h, w[k - 1]) /\ w[k] \in F
            BY <1>2, <2>3, <3>1
        <3>4. a <= w[k - 1] \/ w[k] <= a
            BY <3>2, <3>3 DEF Linked
        <3>5. w[k - 1] \in Nat /\ w[k] \in Nat /\ a \in Nat
            BY <1>3, <3>2, <3>3
        <3>6. w[k] = a
            BY <2>3, <3>2, <3>4, <3>5
        <3>7. QED
            BY <2>3, <3>6
    <2>6. QED
        BY <2>3, <2>4, <2>5
<1>9. QED
    BY <1>2, <1>4, <1>5, <1>7, <1>8 DEF Visits, w

\* p's link, or start_next where p is NONE, leads to a.
Leads(h, F, p, a) ==
    \/ p = NONE /\ a = h.start_next
    \/ p \in F \ {h.end} /\ next_of(h, p) = a

LEMMA WalkLeads ==
    ASSUME NEW h \in HeapType, NEW F, Linked(h, F), NEW i \in 1..Len(Walk(h)) - 1
    PROVE  Leads(h, F, Previous(Walk(h), i), Walk(h)[i])
<1> DEFINE w == Walk(h)
           n == Len(w)
<1>1. Visits(w, h, F)
    BY WalkVisits
<1> HIDE DEF w
<1>2. i \in 1..n - 1 /\ n \in Nat
    BY <1>1 DEF w, Visits
<1>3. CASE i = 1
    BY <1>1, <1>3 DEF Visits, Leads, Previous, w
<1>4. CASE i > 1
    <2>1. i - 1 \in 1..n - 1 /\ (i - 1) + 1 = i /\ i - 1 < n - 1 /\ n - 1 \in 1..n - 1
        BY <1>2, <1>4
    <2>2. w[i - 1] \in F /\ next_of(h, w[i - 1]) = w[i]
        BY <1>1, <2>1 DEF Visits
    <2>3. w[i - 1] < w[n - 1] /\ w[n - 1] = h.end
        BY <1>1, <2>1 DEF Visits
    <2>4. w[i - 1] # h.end
        BY <2>2, <2>3, PlaceWords DEF Linked
    <2>5. QED
        BY <1>4, <2>2, <2>4 DEF Leads, Previous, w
<1>5. QED
    BY <1>2, <1>3, <1>4

\* alloc's walk stops at the lowest block that is large enough, or at the last
\* node.
LEMMA SearchFinds ==
    ASSUME NEW h \in HeapType, NEW F, Linked(h, F), NEW size \in Nat
    PROVE  LET found == Search(h, size)
           IN  /\ found.chosen \in F
               /\ Leads(h, F, found.previous, found.chosen)
               /\ found.after = next_of(h, found.chosen)
               /\ Stops(header_of(h, found.chosen), size)
               /\ \A a \in F : a < found.chosen => ~ Stops(header_of(h, a), size)
<1> DEFINE w == Walk(h)
           n == Len(w)
           T == {i \in DOMAIN w : Stops(header_of(h, w[i]), size)}
           stop == Min(T)
<1>1. Visits(w, h, F)
    BY WalkVisits
<1>2. Search(h, size) = [previous |-> Previous(w, stop),
                         chosen |-> w[stop],
                         after |-> header_of(h, w[stop]).next]
    BY DEF Search
<1> HIDE DEF w
<1>3. n \in Nat /\ n >= 2 /\ DOMAIN w = 1..n /\ T \subseteq Nat
    BY <1>1 DEF Visits
<1>4. n - 1 \in T
    <2>1. n - 1 \in 1..n /\ w[n - 1] = h.end
        BY <1>1, <1>3 DEF Visits
    <2>2. header_of(h, h.end).next = NONE
        BY DEF Linked, next_of
    <2>3. QED
        BY <1>3, <2>1, <2>2 DEF Stops
<1>5. stop \in T /\ (\A y \in T : stop <= y) /\ stop <= n - 1
    <2> HIDE DEF T
    <2>1. QED
        BY <1>3, <1>4, LeastIsMin
<1>6. stop \in 1..n - 1 /\ Stops(header_of(h, w[stop]), size)
    <2> HIDE DEF stop
    <2>1. QED
        BY <1>3, <1>5
<1> HIDE DEF stop
<1>7. w[stop] \in F
    BY <1>1, <1>6 DEF Visits
<1>8. Leads(h, F, Previous(w, stop), w[stop])
    BY <1>6, WalkLeads DEF w
<1>9. ASSUME NEW a \in F, a < w[stop], Stops(header_of(h, a), size)
      PROVE  FALSE
    <2>1. PICK j \in 1..n - 1 : w[j] = a
        BY <1>1 DEF Visits
    <2>2. j \in T
        BY <1>3, <1>9, <2>1
    <2>3. stop <= j /\ stop # j
        <3>1. w[stop] \in Nat /\ a \in Nat
            BY <1>7, PlaceWords DEF Linked
        <3>2. QED
            BY <1>5, <1>9, <2>1, <2>2, <3>1
    <2>4. w[stop] < w[j]
        BY <1>1, <1>6, <2>1, <2>3 DEF Visits
    <2>5. QED
        BY <1>7, <1>9, <2>1, <2>4, PlaceWords DEF Linked
<1>10. QED
    BY <1>2, <1>6, <1>7, <1>8, <1>9 DEF next_of

\* The insert's walk stops between the neighbours of the block.
LEMMA InsertFinds ==
    ASSUME NEW h \in HeapType, NEW F, Linked(h, F), NEW block \in Nat, block <= h.end
    PROVE  LET stop == InsertPosition(Walk(h), block)
               following == Walk(h)[stop]
               iterator == Previous(Walk(h), stop)
           IN  /\ following \in F
               /\ Leads(h, F, iterator, following)
               /\ \A a \in F : a < block \/ following <= a
               /\ block <= following
<1> DEFINE w == Walk(h)
           n == Len(w)
           T == {i \in DOMAIN w : w[i] >= block}
           stop == Min(T)
<1>1. Visits(w, h, F)
    BY WalkVisits
<1>2. InsertPosition(w, block) = stop
    BY DEF InsertPosition
<1> HIDE DEF w
<1>3. n \in Nat /\ n >= 2 /\ DOMAIN w = 1..n /\ T \subseteq Nat
    BY <1>1 DEF Visits
<1>4. n - 1 \in T
    <2>1. n - 1 \in 1..n /\ w[n - 1] = h.end /\ h.end \in Nat
        BY <1>1, <1>3, PlaceWords DEF Visits, Linked
    <2>2. QED
        BY <1>3, <2>1
<1>5. stop \in T /\ (\A y \in T : stop <= y) /\ stop <= n - 1
    <2> HIDE DEF T
    <2>1. QED
        BY <1>3, <1>4, LeastIsMin
<1>6. stop \in 1..n - 1 /\ w[stop] >= block
    <2> HIDE DEF stop
    <2>1. QED
        BY <1>3, <1>5
<1> HIDE DEF stop
<1>7. w[stop] \in F /\ w[stop] \in Nat
    BY <1>1, <1>6, PlaceWords DEF Visits, Linked
<1>8. Leads(h, F, Previous(w, stop), w[stop])
    BY <1>6, WalkLeads DEF w
<1>9. ASSUME NEW a \in F, ~ (a < block) PROVE w[stop] <= a
    <2>1. PICK j \in 1..n - 1 : w[j] = a
        BY <1>1 DEF Visits
    <2>2. a \in Nat
        BY PlaceWords DEF Linked
    <2>3. j \in T
        BY <1>3, <1>9, <2>1, <2>2
    <2>4. stop <= j /\ j \in Nat /\ stop \in Nat
        BY <1>3, <1>5, <2>3
    <2>5. stop < j => w[stop] < w[j]
        BY <1>1, <1>6, <2>1 DEF Visits
    <2>6. QED
        BY <1>7, <2>1, <2>2, <2>4, <2>5
<1>10. QED
    BY <1>2, <1>6, <1>7, <1>8, <1>9 DEF w

\* The nodes of a list are numbers, and none of them is NONE.
LEMMA LinkedNodes ==
    ASSUME NEW h, NEW F, Linked(h, F)
    PROVE  /\ F \subseteq Nat /\ NONE \notin F
           /\ h.start_next \in F /\ h.end \in F
           /\ \A a \in F : h.start_next <= a /\ a <= h.end
<1>1. F \subseteq Place
    BY DEF Linked
<1>2. \A a \in Place : a \in Nat /\ a # NONE
    BY Geometry DEF Place
<1>3. QED
    BY <1>1, <1>2 DEF Linked

\* free_list_shape's nodes are those below pxEnd, in order.
LEMMA NodesListed ==
    ASSUME NEW h \in HeapType, NEW F, Linked(h, F)
    PROVE  LET nodes == ListNodes(h)
           IN  /\ nodes \in Seq(F \ {h.end})
               /\ Range(nodes) = F \ {h.end}
               /\ \A i, j \in DOMAIN nodes : i < j => nodes[i] < nodes[j]
<1> DEFINE w == Walk(h)
           n == Len(w)
           T == {i \in DOMAIN w : w[i] \in {NONE, h.end}}
<1>1. Visits(w, h, F)
    BY WalkVisits
<1>2. ListNodes(h) = SubSeq(w, 1, Min(T) - 1)
    BY DEF ListNodes
<1> HIDE DEF w
<1>n. n \in Nat /\ n >= 2
    BY <1>1 DEF Visits
<1>3. DOMAIN w = 1..n /\ T \subseteq Nat
    BY <1>1 DEF Visits
<1>a. NONE \notin F /\ h.end \in F /\ F \subseteq Nat
    BY LinkedNodes
<1>b. n - 1 \in 1..n - 1 /\ n \in 1..n /\ n - 1 \in 1..n /\ w[n] = NONE /\ w[n - 1] = h.end
    BY <1>1, <1>n DEF Visits
<1>4. T = {n - 1, n}
    <2>2. ASSUME NEW i \in 1..n - 1, w[i] \in {NONE, h.end} PROVE i = n - 1
        <3>1. w[i] \in F
            BY <1>1 DEF Visits
        <3>2. w[i] = w[n - 1]
            BY <1>a, <1>b, <2>2, <3>1
        <3>3. i < n - 1 => w[i] < w[n - 1]
            BY <1>1, <1>b DEF Visits
        <3>4. w[i] \in Nat
            BY <1>a, <3>1
        <3>5. QED
            BY <1>n, <3>2, <3>3, <3>4
    <2>3. T \subseteq {n - 1, n}
        <3>1. \A i \in 1..n : i = n \/ i \in 1..n - 1
            BY <1>n
        <3>2. QED
            BY <1>3, <2>2, <3>1
    <2>4. QED
        BY <1>3, <1>b, <2>3
<1>5. Min(T) = n - 1
    <2>1. Min(T) \in T /\ \A y \in T : Min(T) <= y
        <3> HIDE DEF T
        <3>1. QED
            BY <1>3, <1>4, LeastIsMin
    <2> HIDE DEF T
    <2>2. QED
        BY <1>n, <1>4, <2>1
<1> HIDE DEF T
<1> DEFINE nodes == SubSeq(w, 1, n - 2)
<1>6. /\ nodes \in Seq(F \cup {NONE})
      /\ Len(nodes) = n - 2
      /\ \A i \in 1..n - 2 : nodes[i] = w[i]
    <2>1. w \in Seq(F \cup {NONE})
        BY <1>1 DEF Visits
    <2>2. \A i \in 1..n - 2 : w[i] \in F \cup {NONE}
        BY <1>n, <2>1
    <2> DEFINE m == n - 2
    <2>3. m \in Nat
        BY <1>n
    <2> HIDE DEF m
    <2>4. /\ SubSeq(w, 1, m) \in Seq(F \cup {NONE})
          /\ Len(SubSeq(w, 1, m)) = IF 1 <= m THEN m - 1 + 1 ELSE 0
          /\ \A i \in 1..m - 1 + 1 : SubSeq(w, 1, m)[i] = w[1 + i - 1]
        BY <2>2, <2>3, SubSeqProperties DEF m
    <2>5. m - 1 + 1 = m /\ \A i \in 1..m : 1 + i - 1 = i
        BY <2>3
    <2>6. nodes = SubSeq(w, 1, m)
        BY DEF m
    <2> HIDE DEF nodes
    <2>7. Len(nodes) = m
        BY <2>3, <2>4, <2>5, <2>6
    <2>8. QED
        BY <2>4, <2>5, <2>6, <2>7 DEF m
<1> HIDE DEF nodes
<1>7. ASSUME NEW i \in 1..n - 2 PROVE nodes[i] \in F \ {h.end}
    <2>1. i \in 1..n - 1 /\ i < n - 1
        BY <1>n
    <2>2. w[i] \in F /\ w[i] < w[n - 1]
        BY <1>1, <1>b, <2>1 DEF Visits
    <2>a. w[i] \in Nat
        BY <1>a, <2>2
    <2>3. w[i] # h.end
        BY <1>b, <2>2, <2>a
    <2>4. QED
        BY <1>6, <2>2, <2>3
<1>c. DOMAIN nodes = 1..n - 2 /\ Len(nodes) \in Nat
    BY <1>6, <1>n
<1>8. nodes \in Seq(F \ {h.end})
    BY <1>6, <1>7, <1>c
<1>9. Range(nodes) = F \ {h.end}
    <2>1. ASSUME NEW a \in F \ {h.end} PROVE a \in Range(nodes)
        <3>1. PICK j \in 1..n - 1 : w[j] = a
            BY <1>1 DEF Visits
        <3>2. j # n - 1
            BY <1>b, <3>1
        <3>3. j \in 1..n - 2
            BY <1>n, <3>1, <3>2
        <3>4. QED
            BY <1>6, <1>c, <3>1, <3>3 DEF Range
    <2>2. QED
        BY <1>c, <1>7, <2>1 DEF Range
<1>10. ASSUME NEW i \in 1..n - 2, NEW j \in 1..n - 2, i < j PROVE nodes[i] < nodes[j]
    <2>1. i \in 1..n - 1 /\ j \in 1..n - 1
        BY <1>n
    <2>2. w[i] < w[j]
        BY <1>1, <1>10, <2>1 DEF Visits
    <2>3. QED
        BY <1>6, <2>2
<1>11. ListNodes(h) = nodes
    BY <1>2, <1>n, <1>5 DEF nodes
<1>12. QED
    BY <1>c, <1>8, <1>9, <1>10, <1>11

-----------------------------------------------------------------------------
(* Relinking.                                                              *)

\* n is the next higher node of F after a.
Follows(F, a, n) == n \in F /\ a < n /\ \A b \in F : b <= a \/ n <= b

\* h2 links p, or start_next where p is NONE, to v, and is h at the other
\* nodes of rest.
Relinked(h, h2, rest, p, v) ==
    /\ h2.end = h.end
    /\ p = NONE => h2.start_next = v
    /\ p # NONE => h2.start_next = h.start_next /\ next_of(h2, p) = v
    /\ \A a \in rest \ {p} : next_of(h2, a) = next_of(h, a)

LEMMA LinkedFollows ==
    ASSUME NEW h, NEW F
    PROVE  Linked(h, F) <=>
             /\ F \subseteq Place
             /\ h.start_next \in F /\ h.end \in F
             /\ \A a \in F : h.start_next <= a /\ a <= h.end
             /\ \A a \in F \ {h.end} : Follows(F, a, next_of(h, a))
             /\ next_of(h, h.end) = NONE
BY DEF Linked, Follows

\* A node c is replaced by a place b before its follower, or leaves the list
\* where b is that follower.
LEMMA LinkSwap ==
    ASSUME NEW h, NEW h2, NEW F, Linked(h, F), NEW c \in F \ {h.end},
           NEW p, Leads(h, F, p, c),
           NEW b \in Place, b <= next_of(h, c), p = NONE \/ p < b,
           Relinked(h, h2, F \ {c}, p, b),
           b = next_of(h, c) \/ next_of(h2, b) = next_of(h, c)
    PROVE  Linked(h2, (F \ {c}) \cup {b})
<1> DEFINE n == next_of(h, c)
           G == (F \ {c}) \cup {b}
<1>1. F \subseteq Nat /\ NONE \notin F /\ b \in Nat /\ b # NONE /\ c \in Nat /\ h.end \in F /\ h.end \in Nat
    BY LinkedNodes, Geometry DEF Place
<1>2. Follows(F, c, n) /\ n \in Nat /\ \A a \in F \ {h.end} : Follows(F, a, next_of(h, a))
    BY <1>1, LinkedFollows DEF Follows
<1>3. p # NONE => /\ p \in F \ {h.end} /\ p \in Nat /\ next_of(h, p) = c /\ p < c
                  /\ Follows(F, p, c)
    BY <1>1, <1>2 DEF Leads, Follows
<1>4. p = NONE => c = h.start_next
    BY <1>1 DEF Leads
\* No node but c lies between p and n.
<1>5. \A a \in F : a = c \/ (p # NONE /\ a <= p) \/ n <= a
    <2>1. SUFFICES ASSUME NEW a \in F, ~ (n <= a), a # c PROVE p # NONE /\ a <= p
        OBVIOUS
    <2>2. a <= c /\ a \in Nat
        BY <1>1, <1>2, <2>1 DEF Follows
    <2>3. p # NONE
        <3>1. p = NONE => c <= a
            BY <1>4, LinkedNodes
        <3>2. QED
            BY <1>1, <2>1, <2>2, <3>1
    <2>4. a <= p \/ c <= a
        BY <1>3, <2>3, <2>1 DEF Follows
    <2>5. QED
        BY <1>1, <2>1, <2>2, <2>3, <2>4
<1>6. h2.end = h.end /\ \A a \in F \ {c} : a # p => next_of(h2, a) = next_of(h, a)
    BY DEF Relinked
<1>7. G \subseteq Place /\ h.end \in G /\ G \subseteq Nat
    BY <1>1 DEF Linked
<1>8. n <= h.end /\ n \in F
    BY <1>2, LinkedNodes DEF Follows
<1>9. \A a \in G : a <= h.end
    <2>1. \A a \in F : a <= h.end
        BY LinkedNodes
    <2>2. b <= h.end
        BY <1>1, <1>2, <1>8
    <2>3. QED
        BY <2>1, <2>2
<1>10. h2.start_next \in G /\ \A a \in G : h2.start_next <= a
    <2>1. CASE p = NONE
        <3>1. h2.start_next = b
            BY <2>1 DEF Relinked
        <3>2. \A a \in F \ {c} : n <= a
            BY <1>5, <2>1
        <3>3. QED
            BY <1>1, <1>2, <1>7, <3>1, <3>2
    <2>2. CASE p # NONE
        <3>1. h2.start_next = h.start_next /\ h.start_next \in F /\ h.start_next <= p
            BY <1>3, <2>2, LinkedNodes DEF Relinked
        <3>2. h.start_next # c
            BY <1>1, <1>3, <2>2, <3>1
        <3>3. \A a \in F : h.start_next <= a
            BY LinkedNodes
        <3>4. h.start_next <= b
            <4>1. h.start_next \in Nat /\ p \in Nat /\ p < b
                BY <1>1, <1>3, <2>2, <3>1
            <4>2. QED
                BY <1>1, <3>1, <4>1
        <3>5. QED
            BY <3>1, <3>2, <3>3, <3>4
    <2>3. QED
        BY <2>1, <2>2
<1>11. ASSUME NEW a \in F \ {c, h.end}, a # p, a # b
       PROVE  Follows(G, a, next_of(h2, a))
    <2>1. next_of(h2, a) = next_of(h, a) /\ Follows(F, a, next_of(h, a)) /\ a \in Nat
        BY <1>1, <1>2, <1>6, <1>11
    <2> DEFINE m == next_of(h, a)
    <2>2. m \in F /\ m \in Nat /\ a < m /\ \A x \in F : x <= a \/ m <= x
        BY <1>1, <2>1 DEF Follows
    <2> HIDE DEF m
    <2>3. (p # NONE /\ a < p) \/ n <= a
        BY <1>1, <1>3, <1>5, <1>11, <2>1
    <2>4. CASE n <= a
        <3>1. m # c /\ b <= a
            BY <1>1, <1>2, <2>1, <2>2, <2>4 DEF Follows
        <3>2. QED
            BY <2>1, <2>2, <3>1 DEF Follows, m
    <2>5. CASE p # NONE /\ a < p
        <3>1. m <= p
            BY <1>1, <1>3, <2>1, <2>2, <2>5
        <3>2. m # c /\ m <= b
            BY <1>1, <1>3, <2>2, <2>5, <3>1
        <3>3. QED
            BY <2>1, <2>2, <3>2 DEF Follows, m
    <2>6. QED
        BY <2>3, <2>4, <2>5
<1>12. b # n => Follows(G, b, next_of(h2, b))
    <2>1. SUFFICES ASSUME b # n PROVE Follows(G, b, n)
        OBVIOUS
    <2>2. n \in G /\ b < n
        BY <1>1, <1>2, <2>1 DEF Follows
    <2>3. ASSUME NEW a \in F \ {c} PROVE a <= b \/ n <= a
        <3>1. CASE n <= a
            BY <3>1
        <3>2. CASE p # NONE /\ a <= p
            BY <1>1, <1>3, <3>2
        <3>3. QED
            BY <1>5, <3>1, <3>2
    <2>4. QED
        BY <1>1, <2>2, <2>3 DEF Follows
<1>13. p # NONE => Follows(G, p, next_of(h2, p))
    <2>1. SUFFICES ASSUME p # NONE PROVE Follows(G, p, b)
        BY DEF Relinked
    <2>2. ASSUME NEW a \in F \ {c} PROVE a <= p \/ b <= a
        BY <1>1, <1>2, <1>5
    <2>3. QED
        BY <1>1, <2>1, <2>2 DEF Follows
<1>14. ASSUME NEW a \in G \ {h.end} PROVE Follows(G, a, next_of(h2, a))
    <2>1. CASE a = p
        BY <1>1, <1>7, <1>13, <1>14, <2>1
    <2>2. CASE a # p /\ a = b
        <3>1. CASE b # n
            BY <1>12, <2>2, <3>1
        <3>2. CASE b = n
            <4>1. n \in F \ {c, h.end}
                BY <1>1, <1>2, <1>14, <2>2, <3>2 DEF Follows
            <4>2. next_of(h2, n) = next_of(h, n) /\ Follows(F, n, next_of(h, n))
                BY <1>2, <1>6, <2>2, <3>2, <4>1
            <4>3. next_of(h, n) # c
                BY <1>1, <1>2, <4>2 DEF Follows
            <4>4. QED
                BY <2>2, <3>2, <4>1, <4>2, <4>3 DEF Follows
        <3>3. QED
            BY <3>1, <3>2
    <2>3. CASE a # p /\ a # b
        BY <1>11, <1>14, <2>3
    <2>4. QED
        BY <2>1, <2>2, <2>3
<1>15. next_of(h2, h.end) = NONE
    BY <1>1, <1>3, <1>6 DEF Linked
<1>16. QED
    BY <1>6, <1>7, <1>9, <1>10, <1>14, <1>15, LinkedFollows

\* A place joins the list between two neighbours.
LEMMA LinkIn ==
    ASSUME NEW h, NEW h2, NEW F, Linked(h, F), NEW f \in F,
           NEW p, Leads(h, F, p, f), NEW b \in Place, b < f, p = NONE \/ p < b,
           Relinked(h, h2, F, p, b), next_of(h2, b) = f
    PROVE  Linked(h2, F \cup {b})
<1> DEFINE G == F \cup {b}
<1>1. F \subseteq Nat /\ NONE \notin F /\ b \in Nat /\ b # NONE /\ f \in Nat /\ h.end \in F /\ h.end \in Nat
    BY LinkedNodes, Geometry DEF Place
<1>2. \A a \in F \ {h.end} : Follows(F, a, next_of(h, a))
    BY LinkedFollows
<1>3. p # NONE => p \in F \ {h.end} /\ p \in Nat /\ next_of(h, p) = f /\ Follows(F, p, f)
    BY <1>1, <1>2 DEF Leads
<1>4. p = NONE => f = h.start_next
    BY <1>1 DEF Leads
<1>5. \A a \in F : (p # NONE /\ a <= p) \/ f <= a
    BY <1>3, <1>4, LinkedNodes DEF Follows
<1>6. h2.end = h.end /\ \A a \in F : a # p => next_of(h2, a) = next_of(h, a)
    BY DEF Relinked
<1>7. G \subseteq Place /\ h.end \in G /\ G \subseteq Nat /\ b # h.end
    <2>1. f <= h.end
        BY LinkedNodes
    <2>2. QED
        BY <1>1, <2>1 DEF Linked
<1>8. b \notin F
    BY <1>1, <1>3, <1>5
<1>9. \A a \in G : a <= h.end
    <2>1. \A a \in F : a <= h.end
        BY LinkedNodes
    <2>2. QED
        BY <1>1, <2>1
<1>10. h2.start_next \in G /\ \A a \in G : h2.start_next <= a
    <2>1. CASE p = NONE
        BY <1>1, <1>5, <1>7, <2>1 DEF Relinked
    <2>2. CASE p # NONE
        <3>1. h2.start_next = h.start_next /\ h.start_next \in F /\ h.start_next <= p
            BY <1>3, <2>2, LinkedNodes DEF Relinked
        <3>2. \A a \in F : h.start_next <= a
            BY LinkedNodes
        <3>3. h.start_next <= b
            <4>1. h.start_next \in Nat /\ p \in Nat /\ p < b
                BY <1>1, <1>3, <2>2, <3>1
            <4>2. QED
                BY <1>1, <3>1, <4>1
        <3>4. QED
            BY <3>1, <3>2, <3>3
    <2>3. QED
        BY <2>1, <2>2
<1>11. ASSUME NEW a \in F \ {h.end}, a # p
       PROVE  Follows(G, a, next_of(h2, a))
    <2> DEFINE m == next_of(h, a)
    <2>1. next_of(h2, a) = m /\ Follows(F, a, m) /\ a \in Nat
        BY <1>1, <1>2, <1>6, <1>11
    <2> HIDE DEF m
    <2>2. m \in F /\ m \in Nat /\ a < m /\ \A x \in F : x <= a \/ m <= x
        BY <1>1, <2>1 DEF Follows
    <2>3. CASE f <= a
        <3>1. b <= a
            BY <1>1, <2>1, <2>3
        <3>2. QED
            BY <2>1, <2>2, <3>1 DEF Follows
    <2>4. CASE p # NONE /\ a <= p
        <3>1. m <= p
            BY <1>1, <1>3, <1>11, <2>1, <2>2, <2>4
        <3>2. m <= b
            BY <1>1, <1>3, <2>2, <2>4, <3>1
        <3>3. QED
            BY <2>1, <2>2, <3>2 DEF Follows
    <2>5. QED
        BY <1>5, <2>3, <2>4
<1>12. Follows(G, b, next_of(h2, b))
    <2>1. ASSUME NEW a \in F PROVE a <= b \/ f <= a
        <3>1. CASE f <= a
            BY <3>1
        <3>2. CASE p # NONE /\ a <= p
            BY <1>1, <1>3, <3>2
        <3>3. QED
            BY <1>5, <3>1, <3>2
    <2>2. QED
        BY <1>1, <2>1 DEF Follows
<1>13. p # NONE => Follows(G, p, next_of(h2, p))
    <2>1. SUFFICES ASSUME p # NONE PROVE Follows(G, p, b)
        BY DEF Relinked
    <2>2. ASSUME NEW a \in F PROVE a <= p \/ b <= a
        BY <1>1, <1>5
    <2>3. QED
        BY <1>1, <2>1, <2>2 DEF Follows
<1>14. ASSUME NEW a \in G \ {h.end} PROVE Follows(G, a, next_of(h2, a))
    <2>1. CASE a = b
        BY <1>12, <2>1
    <2>2. CASE a # b /\ a = p
        BY <1>1, <1>13, <2>2
    <2>3. CASE a # b /\ a # p
        BY <1>11, <1>14, <2>3
    <2>4. QED
        BY <2>1, <2>2, <2>3
<1>15. next_of(h2, h.end) = NONE
    BY <1>1, <1>3, <1>6 DEF Linked
<1>16. QED
    BY <1>6, <1>7, <1>9, <1>10, <1>14, <1>15, LinkedFollows

-----------------------------------------------------------------------------
(* The free blocks.                                                        *)

\* Where the block at a ends: an end marker takes the room of its header.
Reach(h, a) == a + (IF size_of(h, a) > STRUCT_SIZE THEN size_of(h, a) ELSE STRUCT_SIZE)

\* The nodes of F are unmarked, each ends before the next begins, and the last
\* is an end marker.
Laid(h, F) ==
    /\ \A a \in F :
        /\ header_of(h, a).size \in 0..ALLOCATED_BIT - 1
        /\ OnGrid(header_of(h, a).size)
        /\ header_of(h, a).size = 0 \/ header_of(h, a).size >= STRUCT_SIZE
    /\ header_of(h, h.end).size = 0
    /\ \A a, b \in F : a < b => Reach(h, a) <= b

FreeList(h, F) == h \in HeapType /\ Linked(h, F) /\ Laid(h, F)

\* h2 is h but for start_next and for headers of D, and what was written is
\* unmarked.
Kept(h, h2, D) ==
    /\ h2 \in HeapType
    /\ h2 = [h EXCEPT !.store = h2.store, !.start_next = h2.start_next]
    /\ \A w \in 0..(N \div WORD) - 1 :
        \/ h2.store[w] = h.store[w]
        \/ /\ h2.store[w] < ALLOCATED_BIT
           /\ \E a \in D : w = Slot(a, 0) \/ w = Slot(a, 1)

LEMMA KeptTwice ==
    ASSUME NEW h \in HeapType, NEW h1, NEW h2, NEW D, NEW E, Kept(h, h1, D), Kept(h1, h2, E)
    PROVE  Kept(h, h2, D \cup E)
<1>1. h2 \in HeapType /\ h1 \in HeapType
    BY DEF Kept
<1>2. h2 = [h EXCEPT !.store = h2.store, !.start_next = h2.start_next]
    BY <1>1 DEF Kept, HeapType
<1>3. ASSUME NEW w \in 0..(N \div WORD) - 1
      PROVE  \/ h2.store[w] = h.store[w]
             \/ /\ h2.store[w] < ALLOCATED_BIT
                /\ \E a \in D \cup E : w = Slot(a, 0) \/ w = Slot(a, 1)
    BY DEF Kept
<1>4. QED
    BY <1>1, <1>2, <1>3 DEF Kept

LEMMA KeptMore ==
    ASSUME NEW h, NEW h2, NEW D, NEW E, Kept(h, h2, D), D \subseteq E
    PROVE  Kept(h, h2, E)
BY DEF Kept

LEMMA KeptHeader ==
    ASSUME NEW h \in HeapType, NEW h2, NEW D, Kept(h, h2, D), D \subseteq Place,
           NEW b \in Place, \A a \in D : Clear(a, b)
    PROVE  header_of(h2, b) = header_of(h, b)
<1>1. \A a \in D : {Slot(a, 0), Slot(a, 1)} \cap {Slot(b, 0), Slot(b, 1)} = {}
    BY PlaceWords
<1>2. Slot(b, 0) \in 0..(N \div WORD) - 1 /\ Slot(b, 1) \in 0..(N \div WORD) - 1
    BY PlaceWords
<1>3. h2.store[Slot(b, 0)] = h.store[Slot(b, 0)] /\ h2.store[Slot(b, 1)] = h.store[Slot(b, 1)]
    BY <1>1, <1>2 DEF Kept
<1>4. QED
    BY <1>3 DEF header_of

\* A header's words are a heap's words.
LEMMA HeaderWords ==
    ASSUME NEW h \in HeapType, NEW a \in Place
    PROVE  /\ header_of(h, a) = [next |-> h.store[Slot(a, 0)], size |-> h.store[Slot(a, 1)]]
           /\ header_of(h, a).next \in 0..WORD_MOD - 1
           /\ header_of(h, a).size \in 0..WORD_MOD - 1
<1>1. InArena(a)
    BY DEF Place
<1>2. Slot(a, 0) \in 0..(N \div WORD) - 1 /\ Slot(a, 1) \in 0..(N \div WORD) - 1
    BY PlaceWords
<1>3. h.store \in [0..(N \div WORD) - 1 -> 0..WORD_MOD - 1]
    BY DEF HeapType
<1>4. QED
    BY <1>1, <1>2, <1>3 DEF header_of

LEMMA WroteKept ==
    ASSUME NEW h \in HeapType, NEW h2, NEW a \in Place, NEW next, NEW size,
           Wrote(h, h2, a, next, size),
           next = header_of(h, a).next \/ next < ALLOCATED_BIT,
           size = header_of(h, a).size \/ size < ALLOCATED_BIT
    PROVE  Kept(h, h2, {a})
<1>1. h2 \in HeapType /\ h2 = [h EXCEPT !.store = h2.store] /\ h.start_next = h2.start_next
    BY DEF Wrote, HeapType
<1>2. h2 = [h EXCEPT !.store = h2.store, !.start_next = h2.start_next]
    BY <1>1 DEF HeapType
<1>3. h2.store[Slot(a, 0)] = next /\ h2.store[Slot(a, 1)] = size
    <2>1. header_of(h2, a) = [next |-> next, size |-> size]
        BY DEF Wrote
    <2>2. QED
        BY <1>1, <2>1, HeaderWords
<1>4. h.store[Slot(a, 0)] = header_of(h, a).next /\ h.store[Slot(a, 1)] = header_of(h, a).size
    BY HeaderWords
<1>5. \A w \in 0..(N \div WORD) - 1 : w \notin {Slot(a, 0), Slot(a, 1)} => h2.store[w] = h.store[w]
    BY DEF Wrote, HeapType
<1>6. QED
    BY <1>1, <1>2, <1>3, <1>4, <1>5 DEF Kept

\* set_next_from writes start_next or one link.
LEMMA LinkedFrom ==
    ASSUME NEW h \in HeapType, NEW p, p = NONE \/ p \in Place,
           NEW v \in 0..ALLOCATED_BIT - 1
    PROVE  LET h2 == set_next_from(h, p, v)
           IN  /\ Kept(h, h2, {p} \ {NONE})
               /\ p = NONE => h2.start_next = v
               /\ p # NONE => /\ h2.start_next = h.start_next
                              /\ header_of(h2, p) = [next |-> v, size |-> header_of(h, p).size]
<1> DEFINE h2 == set_next_from(h, p, v)
<1>0. v \in 0..WORD_MOD - 1 /\ v < ALLOCATED_BIT
    BY Geometry
<1>1. CASE p = NONE
    <2>1. h2 = [h EXCEPT !.start_next = v]
        BY <1>1 DEF set_next_from
    <2>2. h2 \in HeapType /\ h2.store = h.store /\ h2.start_next = v
        BY <1>0, <2>1 DEF HeapType
    <2>3. Kept(h, h2, {p} \ {NONE})
        BY <2>1, <2>2 DEF Kept, HeapType
    <2>4. QED
        BY <1>1, <2>2, <2>3
<1>2. CASE p # NONE
    <2>1. h2 = set_next(h, p, v) /\ p \in Place
        BY <1>2 DEF set_next_from
    <2>2. Wrote(h, h2, p, v, header_of(h, p).size)
        BY <1>0, <2>1, WroteNext
    <2> HIDE DEF h2
    <2>3. Kept(h, h2, {p})
        BY <1>0, <2>1, <2>2, WroteKept
    <2>4. h2.start_next = h.start_next
        BY <2>2 DEF Wrote, HeapType
    <2>5. header_of(h2, p) = [next |-> v, size |-> header_of(h, p).size]
        BY <2>2 DEF Wrote
    <2>6. {p} \ {NONE} = {p}
        BY <1>2
    <2>7. QED
        BY <1>2, <2>3, <2>4, <2>5, <2>6 DEF h2
<1>3. QED
    BY <1>1, <1>2

\* The nodes of a free list are numbers, their headers share no byte, and their
\* sizes are what their size words say.
LEMMA FreeNodes ==
    ASSUME NEW h, NEW F, FreeList(h, F)
    PROVE  /\ F \subseteq Place /\ F \subseteq Nat /\ h.end \in F /\ NONE \notin F
           /\ \A a \in F :
                /\ size_of(h, a) = header_of(h, a).size
                /\ size_of(h, a) \in Nat /\ OnGrid(size_of(h, a))
                /\ size_of(h, a) = 0 \/ size_of(h, a) >= STRUCT_SIZE
                /\ Reach(h, a) \in Nat
                /\ a + STRUCT_SIZE <= Reach(h, a)
                /\ Reach(h, a) = a + (IF size_of(h, a) = 0 THEN STRUCT_SIZE ELSE size_of(h, a))
           /\ \A a, b \in F : a < b => Reach(h, a) <= b
           /\ \A a, b \in F : a # b => Clear(a, b)
<1>1. F \subseteq Place /\ F \subseteq Nat /\ h.end \in F /\ NONE \notin F
    BY LinkedNodes DEF FreeList, Linked
<1>2. ASSUME NEW a \in F
      PROVE  /\ size_of(h, a) = header_of(h, a).size
             /\ size_of(h, a) \in Nat /\ OnGrid(size_of(h, a))
             /\ size_of(h, a) = 0 \/ size_of(h, a) >= STRUCT_SIZE
    <2>1. /\ header_of(h, a).size \in 0..ALLOCATED_BIT - 1
          /\ OnGrid(header_of(h, a).size)
          /\ header_of(h, a).size = 0 \/ header_of(h, a).size >= STRUCT_SIZE
        BY DEF FreeList, Laid
    <2>2. header_of(h, a).size % ALLOCATED_BIT = header_of(h, a).size
        BY <2>1, Geometry
    <2>3. QED
        BY <2>1, <2>2 DEF size_of, Unmarked
<1>3. STRUCT_SIZE \in Nat \ {0}
    BY Geometry
<1>4. ASSUME NEW a \in F
      PROVE  /\ Reach(h, a) \in Nat
             /\ a + STRUCT_SIZE <= Reach(h, a)
             /\ Reach(h, a) = a + (IF size_of(h, a) = 0 THEN STRUCT_SIZE ELSE size_of(h, a))
    <2>1. a \in Nat
        BY <1>1
    <2>2. size_of(h, a) \in Nat /\ (size_of(h, a) = 0 \/ size_of(h, a) >= STRUCT_SIZE)
        BY <1>2
    <2>3. QED
        BY <1>3, <2>1, <2>2 DEF Reach
<1>5. \A a, b \in F : a < b => Reach(h, a) <= b
    BY DEF FreeList, Laid
<1>6. ASSUME NEW a \in F, NEW b \in F, a # b PROVE Clear(a, b)
    <2>1. a \in Nat /\ b \in Nat
        BY <1>1
    <2>2. a < b => a + STRUCT_SIZE <= b
        BY <1>3, <1>4, <1>5, <2>1
    <2>3. b < a => b + STRUCT_SIZE <= a
        BY <1>3, <1>4, <1>5, <2>1
    <2>4. QED
        BY <1>6, <2>1, <2>2, <2>3 DEF Clear
<1>7. QED
    BY <1>1, <1>2, <1>4, <1>5, <1>6

LEMMA Aligned ==
    ASSUME NEW a \in Nat, NEW b \in Nat, OnGrid(a), OnGrid(b)
    PROVE  /\ OnGrid(a + b)
           /\ b <= a => OnGrid(a - b)
           /\ a < b => a + ALIGN <= b
<1>1. ALIGN = 4 \/ ALIGN = 8 \/ ALIGN = 16
    BY Geometry
<1>2. CASE ALIGN = 4
    BY <1>2 DEF OnGrid
<1>3. CASE ALIGN = 8
    BY <1>3 DEF OnGrid
<1>4. CASE ALIGN = 16
    BY <1>4 DEF OnGrid
<1>5. QED
    BY <1>1, <1>2, <1>3, <1>4

\* Nodes whose size words did not change are laid out as they were.
LEMMA LaidSame ==
    ASSUME NEW h, NEW h2, NEW F, FreeList(h, F), NEW G \in SUBSET F,
           h2.end = h.end, h.end \in G,
           \A a \in G : header_of(h2, a).size = header_of(h, a).size
    PROVE  Laid(h2, G)
<1>1. \A a \in G : size_of(h2, a) = size_of(h, a) /\ Reach(h2, a) = Reach(h, a)
    BY DEF size_of, Reach
<1>2. QED
    BY <1>1 DEF FreeList, Laid

\* h2 is h with size bytes taken from the free block at c: the block leaves the
\* list, and what is left of it joins it if that is worth a block.
Carved(h, F, c, size, h2) ==
    LET rest == size_of(h, c) - size
        split == WorthSplitting(rest)
        G == (F \ {c}) \cup (IF split THEN {c + size} ELSE {})
    IN  /\ Kept(h, h2, F \cup G)
        /\ FreeList(h2, G)
        /\ header_of(h2, c).size = IF split THEN size ELSE size_of(h, c)
        /\ split => c + size \in Place \ F /\ header_of(h2, c + size).size = rest
        /\ \A a \in F \ {c} : header_of(h2, a).size = header_of(h, a).size

\* The words pvPortMalloc writes to take size bytes from the block at c: the
\* block leaves the list, and what is left of it joins it if that is worth a
\* block.
LEMMA CarveOutcome ==
    ASSUME NEW h, NEW F, FreeList(h, F), NEW c \in F \ {h.end},
           NEW p, Leads(h, F, p, c),
           NEW size \in Nat, OnGrid(size), STRUCT_SIZE <= size, size <= size_of(h, c)
    PROVE  LET found == [previous |-> p, chosen |-> c, after |-> next_of(h, c)]
           IN  Carved(h, F, c, size, Carve(h, found, size))
<1> DEFINE found == [previous |-> p, chosen |-> c, after |-> next_of(h, c)]
           h2 == Carve(h, found, size)
           rest == size_of(h, c) - size
           n == next_of(h, c)
           new == c + size
<1> SUFFICES LET G == (F \ {c}) \cup (IF WorthSplitting(rest) THEN {c + size} ELSE {})
             IN  /\ Kept(h, h2, F \cup G)
                 /\ FreeList(h2, G)
                 /\ header_of(h2, c).size = IF WorthSplitting(rest) THEN size ELSE size_of(h, c)
                 /\ WorthSplitting(rest) =>
                        c + size \in Place \ F /\ header_of(h2, c + size).size = rest
                 /\ \A a \in F \ {c} : header_of(h2, a).size = header_of(h, a).size
    BY DEF Carved
<1>1. h \in HeapType /\ Linked(h, F) /\ h.end \in F
    BY FreeNodes DEF FreeList
<1>2. /\ F \subseteq Place /\ F \subseteq Nat /\ NONE \notin F
      /\ \A a, b \in F : a # b => Clear(a, b)
      /\ c \in Place /\ c \in Nat
    BY FreeNodes
<1> HIDE DEF h2
<1>3. /\ n \in F /\ n \in Nat /\ c < n /\ n # c /\ n < ALLOCATED_BIT /\ n <= N /\ n \in Place
      /\ p # NONE => p \in F \ {c, h.end} /\ p \in Nat /\ p < c /\ p < n
    <2>1. n \in F /\ c < n
        BY <1>1 DEF Linked
    <2>2. n \in Nat /\ n < ALLOCATED_BIT /\ n <= N /\ n \in Place
        BY <1>2, <2>1, PlaceFacts
    <2>3. p # NONE => p \in F \ {h.end} /\ p < c
        <3>1. SUFFICES ASSUME p # NONE PROVE p \in F \ {h.end} /\ p < c
            OBVIOUS
        <3>2. p \in F \ {h.end} /\ next_of(h, p) = c
            BY <3>1 DEF Leads
        <3>3. QED
            BY <1>1, <3>2 DEF Linked
    <2>4. n # c
        BY <1>2, <2>1, <2>2
    <2>5. p # NONE => p \in F \ {c, h.end} /\ p \in Nat /\ p < c /\ p < n
        <3>1. SUFFICES ASSUME p # NONE PROVE p \in F \ {c, h.end} /\ p \in Nat /\ p < c /\ p < n
            OBVIOUS
        <3>2. p \in F \ {h.end} /\ p < c /\ p \in Nat
            BY <1>2, <2>3, <3>1
        <3>3. QED
            BY <1>2, <2>1, <2>2, <3>2
    <2>6. QED
        BY <2>1, <2>2, <2>4, <2>5
<1>4. /\ size_of(h, c) \in Nat /\ OnGrid(size_of(h, c))
      /\ header_of(h, c).size = size_of(h, c)
      /\ rest \in Nat /\ STRUCT_SIZE \in Nat \ {0}
      /\ Reach(h, c) = c + size_of(h, c)
      /\ c + size_of(h, c) <= n /\ n <= N
      /\ SatSub(size_of(h, c), size) = rest
    <2>1. /\ size_of(h, c) \in Nat /\ OnGrid(size_of(h, c))
          /\ header_of(h, c).size = size_of(h, c)
          /\ Reach(h, c) = c + (IF size_of(h, c) = 0 THEN STRUCT_SIZE ELSE size_of(h, c))
          /\ Reach(h, c) <= n
        BY <1>3, FreeNodes
    <2>2. STRUCT_SIZE \in Nat \ {0}
        BY Geometry
    <2>3. rest \in Nat /\ SatSub(size_of(h, c), size) = rest
        BY <2>1 DEF SatSub
    <2>4. Reach(h, c) = c + size_of(h, c)
        BY <2>1, <2>2
    <2>5. QED
        BY <1>2, <1>3, <2>1, <2>2, <2>3, <2>4
<1>5. CASE ~ WorthSplitting(rest)
    <2>1. h2 = set_next_from(h, p, n)
        BY <1>4, <1>5 DEF Carve, h2
    <2>2. n \in 0..ALLOCATED_BIT - 1
        BY <1>3, Geometry
    <2>3. p = NONE \/ p \in Place
        BY <1>2, <1>3
    <2>4. /\ Kept(h, h2, {p} \ {NONE})
          /\ p = NONE => h2.start_next = n
          /\ p # NONE => /\ h2.start_next = h.start_next
                         /\ header_of(h2, p) = [next |-> n, size |-> header_of(h, p).size]
        BY <1>1, <2>1, <2>2, <2>3, LinkedFrom
    <2>5. \A a \in F \ {p} : header_of(h2, a) = header_of(h, a)
        <3>1. SUFFICES ASSUME NEW a \in F \ {p} PROVE header_of(h2, a) = header_of(h, a)
            OBVIOUS
        <3>2. {p} \ {NONE} \subseteq Place /\ a \in Place /\ \A b \in {p} \ {NONE} : Clear(b, a)
            BY <1>2, <1>3
        <3>3. QED
            BY <1>1, <2>4, <3>2, KeptHeader
    <2>6. h2.end = h.end /\ h2 \in HeapType
        BY <2>4 DEF Kept, HeapType
    <2>7. Relinked(h, h2, F \ {c}, p, n)
        BY <2>4, <2>5, <2>6 DEF Relinked, next_of
    <2>8. n \in Place /\ n <= n /\ (p = NONE \/ p < n)
        BY <1>3
    <2>9. Linked(h2, (F \ {c}) \cup {n})
        BY <1>1, <2>7, <2>8, LinkSwap
    <2>10. (F \ {c}) \cup {n} = F \ {c}
        BY <1>3
    <2>11. \A a \in F : header_of(h2, a).size = header_of(h, a).size
        <3>1. \A a \in F : a = p => p # NONE
            BY <1>2
        <3>2. p # NONE => header_of(h2, p).size = header_of(h, p).size
            BY <2>4
        <3>3. QED
            BY <2>5, <3>1, <3>2
    <2>12. Laid(h2, F \ {c})
        BY <1>1, <2>6, <2>11, LaidSame
    <2>13. Kept(h, h2, F)
        BY <1>3, <2>4, KeptMore
    <2> DEFINE G == (F \ {c}) \cup (IF WorthSplitting(rest) THEN {c + size} ELSE {})
    <2>14. G = F \ {c} /\ F \cup G = F
        BY <1>5
    <2>15. FreeList(h2, G)
        BY <2>6, <2>9, <2>10, <2>12, <2>14 DEF FreeList
    <2>16. Kept(h, h2, F \cup G)
        BY <2>13, <2>14
    <2>17. header_of(h2, c).size = size_of(h, c)
        BY <1>4, <2>11
    <2> HIDE DEF G
    <2>18. QED
        BY <1>5, <2>11, <2>15, <2>16, <2>17 DEF h2, G
<1>6. CASE WorthSplitting(rest)
    <2>1. rest > 2 * STRUCT_SIZE
        BY <1>6 DEF WorthSplitting, MINIMUM_BLOCK_SIZE
    <2>2. /\ new \in Nat /\ c + STRUCT_SIZE <= new /\ new + STRUCT_SIZE <= new + rest
          /\ new + rest = c + size_of(h, c) /\ new + rest <= n
          /\ new < n /\ new < ALLOCATED_BIT /\ new <= N
        <3>1. c \in Nat /\ size_of(h, c) \in Nat /\ n \in Nat /\ STRUCT_SIZE \in Nat /\ N \in Nat
              /\ ALLOCATED_BIT \in Nat
            BY <1>2, <1>3, <1>4, Geometry
        <3>2. new \in Nat /\ c + STRUCT_SIZE <= new /\ new + STRUCT_SIZE <= new + rest
              /\ new + rest = c + size_of(h, c)
            BY <2>1, <3>1
        <3>3. new + rest <= n
            BY <1>4, <3>2
        <3>4. new < n
            BY <1>4, <2>1, <3>1, <3>2, <3>3
        <3>5. QED
            BY <1>3, <3>1, <3>2, <3>3, <3>4
    <2>3. new \in Place
        <3>1. OnGrid(c)
            BY <1>2, PlaceFacts
        <3>2. OnGrid(new)
            BY <1>2, <3>1, Aligned
        <3>3. new + STRUCT_SIZE <= N
            BY <1>3, <1>4, <2>2, Geometry
        <3>4. QED
            BY <2>2, <3>2, <3>3, IsPlace
    <2>4. \A a \in F : Clear(new, a) /\ a # new
        <3>1. SUFFICES ASSUME NEW a \in F PROVE Clear(new, a) /\ a # new
            OBVIOUS
        <3>2. a \in Nat /\ (a <= c \/ n <= a)
            BY <1>1, <1>2 DEF Linked
        <3>3. a < c => a + STRUCT_SIZE <= c
            <4>1. a < c => Reach(h, a) <= c /\ a + STRUCT_SIZE <= Reach(h, a) /\ Reach(h, a) \in Nat
                BY FreeNodes
            <4>2. QED
                BY <1>2, <1>4, <3>2, <4>1
        <3>4. new + STRUCT_SIZE <= n
            BY <1>3, <1>4, <2>2
        <3>5. CASE n <= a
            BY <1>3, <1>4, <2>2, <3>2, <3>4, <3>5 DEF Clear
        <3>6. CASE a <= c
            BY <1>2, <1>4, <2>2, <3>2, <3>3, <3>6 DEF Clear
        <3>7. QED
            BY <3>2, <3>5, <3>6
    <2> DEFINE w1 == set_header(h, new, n, rest)
               w2 == set_raw_size(w1, c, size)
    <2>5. h2 = set_next_from(w2, p, new)
        BY <1>4, <1>6 DEF Carve, h2
    <2>6. /\ n \in 0..WORD_MOD - 1 /\ rest \in 0..WORD_MOD - 1 /\ size \in 0..WORD_MOD - 1
          /\ new \in 0..ALLOCATED_BIT - 1
          /\ rest < ALLOCATED_BIT /\ size < ALLOCATED_BIT
        <3>1. rest <= N /\ size <= N
            BY <1>2, <1>3, <1>4, <2>2, Geometry
        <3>2. QED
            BY <1>3, <1>4, <2>2, <3>1, Geometry
    <2>7. Wrote(h, w1, new, n, rest)
        BY <1>1, <2>3, <2>6, WroteHeader
    <2>a. w1 \in HeapType
        BY <2>7 DEF Wrote
    <2>8. Wrote(w1, w2, c, header_of(w1, c).next, size)
        BY <1>2, <2>6, <2>a, WroteSize
    <2>b. w2 \in HeapType
        BY <2>8 DEF Wrote
    <2>9. Kept(h, w1, {new})
        BY <1>1, <1>3, <2>3, <2>6, <2>7, WroteKept
    <2>10. Kept(w1, w2, {c})
        BY <1>2, <2>6, <2>a, <2>8, WroteKept
    <2> HIDE DEF w1, w2
    <2>11. \A a \in F : header_of(w1, a) = header_of(h, a)
        BY <1>2, <2>4, <2>7 DEF Wrote
    <2>12. \A a \in F \ {c} : header_of(w2, a) = header_of(h, a)
        BY <1>2, <2>8, <2>11 DEF Wrote
    <2>13. header_of(w2, new) = [next |-> n, size |-> rest]
        <3>1. Clear(c, new)
            BY <2>2 DEF Clear
        <3>2. QED
            BY <2>3, <2>7, <2>8, <3>1 DEF Wrote
    <2>14. header_of(w2, c).size = size
        BY <2>8 DEF Wrote
    <2>15. p = NONE \/ p \in Place
        BY <1>2, <1>3
    <2>16. /\ Kept(w2, h2, {p} \ {NONE})
           /\ p = NONE => h2.start_next = new
           /\ p # NONE => /\ h2.start_next = w2.start_next
                          /\ header_of(h2, p) = [next |-> new, size |-> header_of(w2, p).size]
        BY <2>5, <2>6, <2>b, <2>15, LinkedFrom
    <2>17. \A a \in (F \cup {new}) \ {p} : header_of(h2, a) = header_of(w2, a)
        <3>1. SUFFICES ASSUME NEW a \in (F \cup {new}) \ {p} PROVE header_of(h2, a) = header_of(w2, a)
            OBVIOUS
        <3>2. {p} \ {NONE} \subseteq Place /\ a \in Place
            BY <1>2, <1>3, <2>3
        <3>3. \A b \in {p} \ {NONE} : Clear(b, a)
            BY <1>2, <1>3, <2>4 DEF Clear
        <3>4. QED
            BY <2>b, <2>16, <3>2, <3>3, KeptHeader
    <2>18. /\ \A a \in F \ {c} : header_of(h2, a).size = header_of(h, a).size
           /\ \A a \in F \ {c, p} : next_of(h2, a) = next_of(h, a)
           /\ header_of(h2, c).size = size
           /\ header_of(h2, new) = [next |-> n, size |-> rest]
        <3>1. p # new /\ p # c
            BY <1>2, <1>3, <2>4, <2>3, PlaceFacts
        <3>2. \A a \in F \ {c} : header_of(h2, a).size = header_of(h, a).size
            <4>1. \A a \in F : a = p => p # NONE
                BY <1>2
            <4>2. p # NONE => header_of(h2, p).size = header_of(w2, p).size
                BY <2>16
            <4>3. QED
                BY <2>12, <2>17, <4>1, <4>2
        <3>3. \A a \in F \ {c, p} : next_of(h2, a) = next_of(h, a)
            BY <2>12, <2>17 DEF next_of
        <3>4. QED
            BY <2>13, <2>14, <2>17, <3>1, <3>2, <3>3
    <2>19. Kept(h, h2, F \cup {new}) /\ h2.end = h.end /\ h2 \in HeapType
        <3>1. Kept(h, w2, {new} \cup {c})
            BY <1>1, <2>9, <2>10, KeptTwice
        <3>2. Kept(h, h2, ({new} \cup {c}) \cup ({p} \ {NONE}))
            BY <1>1, <2>16, <3>1, KeptTwice
        <3>3. ({new} \cup {c}) \cup ({p} \ {NONE}) \subseteq F \cup {new}
            BY <1>3
        <3>4. Kept(h, h2, F \cup {new})
            BY <3>2, <3>3, KeptMore
        <3>5. QED
            BY <3>4 DEF Kept, HeapType
    <2>20. Relinked(h, h2, F \ {c}, p, new)
        <3>1. w2.start_next = h.start_next
            BY <2>7, <2>8 DEF Wrote, HeapType
        <3>2. p # NONE => next_of(h2, p) = new
            BY <2>16 DEF next_of
        <3>3. QED
            BY <2>16, <2>18, <2>19, <3>1, <3>2 DEF Relinked
    <2>21. new <= n /\ (p = NONE \/ p < new) /\ next_of(h2, new) = n
        <3>1. next_of(h2, new) = n
            BY <2>18 DEF next_of
        <3>2. p = NONE \/ p < new
            <4>1. p # NONE => p \in Nat /\ p < c
                BY <1>3
            <4>2. c < new
                BY <1>2, <1>4, <2>2
            <4>3. QED
                BY <1>2, <2>2, <4>1, <4>2
        <3>3. QED
            BY <1>3, <2>2, <3>1, <3>2
    <2>22. Linked(h2, (F \ {c}) \cup {new})
        BY <1>1, <2>3, <2>20, <2>21, LinkSwap
    <2>23. Laid(h2, F \ {c})
        BY <1>1, <2>18, <2>19, LaidSame
    <2>24. Laid(h2, (F \ {c}) \cup {new})
        <3>1. header_of(h2, new).size = rest /\ rest \in 0..ALLOCATED_BIT - 1
            <4>1. rest \in Nat /\ rest < ALLOCATED_BIT /\ ALLOCATED_BIT \in Nat
                BY <1>4, <2>6, Geometry
            <4>2. QED
                BY <2>18, <4>1
        <3>2. OnGrid(rest) /\ rest >= STRUCT_SIZE
            <4>1. OnGrid(rest)
                BY <1>4, Aligned
            <4>2. QED
                BY <1>4, <2>1, <4>1
        <3>3. size_of(h2, new) = rest
            BY <3>1, Geometry DEF size_of, Unmarked
        <3>4. Reach(h2, new) = new + rest
            BY <1>4, <2>1, <3>3 DEF Reach
        <3>5. ASSUME NEW a \in F \ {c}, a < new PROVE Reach(h2, a) <= new
            <4>1. a \in Nat /\ (a <= c \/ n <= a)
                BY <1>1, <1>2 DEF Linked
            <4>2. a < c
                BY <1>2, <1>3, <2>2, <3>5, <4>1
            <4>3. Reach(h, a) <= c /\ Reach(h, a) \in Nat
                BY <4>2, FreeNodes
            <4>4. Reach(h2, a) = Reach(h, a)
                BY <2>18 DEF Reach, size_of
            <4>5. QED
                BY <1>2, <2>2, <1>4, <4>3, <4>4
        <3>6. ASSUME NEW a \in F \ {c}, new < a PROVE Reach(h2, new) <= a
            <4>1. a \in Nat /\ (a <= c \/ n <= a)
                BY <1>1, <1>2 DEF Linked
            <4>2. n <= a
                BY <1>2, <1>4, <2>2, <3>6, <4>1
            <4>3. QED
                BY <1>3, <1>4, <2>2, <3>4, <4>1, <4>2
        <3>7. ~ (new < new)
            BY <2>2
        <3>8. QED
            BY <2>23, <3>1, <3>2, <3>5, <3>6, <3>7 DEF Laid
    <2> DEFINE G == (F \ {c}) \cup (IF WorthSplitting(rest) THEN {c + size} ELSE {})
    <2>25. G = (F \ {c}) \cup {new} /\ F \cup G = F \cup {new}
        BY <1>6
    <2>26. FreeList(h2, G) /\ Kept(h, h2, F \cup G)
        BY <2>19, <2>22, <2>24, <2>25 DEF FreeList
    <2> HIDE DEF G
    <2>27. new \in Place \ F
        BY <2>3, <2>4
    <2>28. QED
        BY <1>6, <2>18, <2>26, <2>27 DEF h2, G
<1>7. QED
    BY <1>5, <1>6

\* What a freed block joins: where the merged block starts and how long it is.
\* insert_into_free_list's variables, for the neighbours it and f.
Merge(h, it, f, b, size) ==
    LET joins == JoinsBefore(h, it, b)
        absorbs == Absorbs(h, b + size, f)
    IN  [at |-> IF joins THEN it ELSE b,
         size |-> (IF joins THEN size_of(h, it) ELSE 0) + size
                    + (IF absorbs THEN size_of(h, f) ELSE 0),
         lost |-> IF absorbs THEN {f} ELSE {}]

\* The neighbours of a place b that lies in no free block: f is the next node
\* above b and it, which may be NONE, the one below.
Neighbours(h, F, it, f, b) ==
    /\ f \in F
    /\ Leads(h, F, it, f)
    /\ b < f
    /\ it # NONE => it < b

LEMMA NeighboursFound ==
    ASSUME NEW h, NEW F, FreeList(h, F), NEW b \in Place \ F, b <= h.end
    PROVE  LET stop == InsertPosition(Walk(h), b)
           IN  Neighbours(h, F, Previous(Walk(h), stop), Walk(h)[stop], b)
<1> DEFINE stop == InsertPosition(Walk(h), b)
           f == Walk(h)[stop]
           it == Previous(Walk(h), stop)
<1>1. h \in HeapType /\ Linked(h, F) /\ b \in Nat /\ F \subseteq Nat
    BY FreeNodes, PlaceFacts DEF FreeList
<1>2. /\ f \in F /\ Leads(h, F, it, f)
      /\ \A a \in F : a < b \/ f <= a
      /\ b <= f
    BY <1>1, InsertFinds
<1> HIDE DEF f, it
<1>3. b < f
    BY <1>1, <1>2
<1>4. it # NONE => it < b
    <2>1. SUFFICES ASSUME it # NONE PROVE it < b
        OBVIOUS
    <2>2. it \in F \ {h.end} /\ next_of(h, it) = f
        BY <1>2, <2>1 DEF Leads
    <2>3. it < f /\ it \in Nat /\ f \in Nat
        BY <1>1, <1>2, <2>2 DEF Linked
    <2>4. it < b \/ f <= it
        BY <1>2, <2>2
    <2>5. QED
        BY <2>3, <2>4
<1>5. QED
    BY <1>2, <1>3, <1>4 DEF Neighbours, f, it

\* h2 is h with the block at b joined with its neighbours it and f and put on
\* the list.
Inserted(h, F, it, f, b, size, h2) ==
    LET m == Merge(h, it, f, b, size)
        G == (F \ m.lost) \cup {m.at}
    IN  /\ Neighbours(h, F, it, f, b)
        /\ Kept(h, h2, F \cup G)
        /\ FreeList(h2, G)
        /\ header_of(h2, m.at).size = m.size
        /\ \A a \in F \ {m.at} : header_of(h2, a).size = header_of(h, a).size


\* The words prvInsertBlockIntoFreeList writes: the block at b joins the list,
\* merged with the free blocks it touches.
LEMMA InsertOutcome ==
    ASSUME NEW h, NEW F, FreeList(h, F), NEW b \in Place, NEW size \in Nat,
           OnGrid(size), STRUCT_SIZE <= size, b <= h.end,
           header_of(h, b).size = size,
           \A a \in F : b + size <= a \/ Reach(h, a) <= b
    PROVE  \E it, f : Inserted(h, F, it, f, b, size, insert_into_free_list(h, b, size))
<1> DEFINE h2 == insert_into_free_list(h, b, size)
           stop == InsertPosition(Walk(h), b)
           it == Previous(Walk(h), stop)
           f == Walk(h)[stop]
           joins == JoinsBefore(h, it, b)
           insert == IF joins THEN it ELSE b
           insert_size == IF joins THEN size_of(h, it) + size ELSE size
           grown == IF joins THEN set_raw_size(h, it, insert_size) ELSE h
           absorbs == Absorbs(h, insert + insert_size, f)
           linked == IF absorbs
                     THEN set_header(grown, insert, header_of(grown, f).next,
                                     insert_size + Unmarked(header_of(grown, f).size))
                     ELSE set_next(grown, insert, f)
           total == insert_size + (IF absorbs THEN size_of(h, f) ELSE 0)
           G == (F \ (IF absorbs THEN {f} ELSE {})) \cup {insert}
<1>0. h2 = IF insert = it THEN linked ELSE set_next_from(linked, it, insert)
    BY DEF insert_into_free_list
<1>1. h \in HeapType /\ Linked(h, F) /\ h.end \in F /\ h.end \in Nat
    BY FreeNodes DEF FreeList
<1>2. /\ F \subseteq Place /\ F \subseteq Nat /\ NONE \notin F
      /\ \A a, c \in F : a # c => Clear(a, c)
      /\ \A a \in F : /\ size_of(h, a) = header_of(h, a).size
                      /\ size_of(h, a) \in Nat /\ OnGrid(size_of(h, a))
                      /\ Reach(h, a) \in Nat /\ a + STRUCT_SIZE <= Reach(h, a)
                      /\ a + size_of(h, a) <= Reach(h, a)
    <2>1. \A a \in F : a + size_of(h, a) <= Reach(h, a)
        <3>1. STRUCT_SIZE \in Nat
            BY Geometry
        <3>2. QED
            BY <3>1, FreeNodes
    <2>2. QED
        BY <2>1, FreeNodes
<1>3. STRUCT_SIZE \in Nat \ {0} /\ b \in Nat /\ OnGrid(b) /\ b # NONE
      /\ ALLOCATED_BIT \in Nat /\ N \in Nat /\ N < ALLOCATED_BIT /\ WORD_MOD = 2 * ALLOCATED_BIT
    BY Geometry, PlaceFacts
<1>4. b \notin F /\ \A a \in F : Clear(b, a)
    <2>1. SUFFICES ASSUME NEW a \in F PROVE b # a /\ Clear(b, a)
        OBVIOUS
    <2>2. a \in Nat /\ Reach(h, a) \in Nat /\ a + STRUCT_SIZE <= Reach(h, a)
        BY <1>2
    <2>3. b + size <= a \/ Reach(h, a) <= b
        OBVIOUS
    <2>4. QED
        BY <1>3, <2>2, <2>3 DEF Clear
<1>5. Neighbours(h, F, it, f, b)
    BY <1>4, NeighboursFound
<1> HIDE DEF it, f, h2
<1>6. /\ f \in F /\ f \in Nat /\ b < f /\ f \in Place
      /\ it # NONE => /\ it \in F \ {h.end} /\ it < b /\ it \in Nat /\ it \in Place /\ it # f
                      /\ next_of(h, it) = f
                      /\ \A a \in F : a <= it \/ f <= a
    <2>1. f \in F /\ f \in Nat /\ b < f /\ f \in Place
        BY <1>2, <1>5 DEF Neighbours
    <2>2. SUFFICES ASSUME it # NONE
                   PROVE  /\ it \in F \ {h.end} /\ it < b /\ it \in Nat /\ it \in Place /\ it # f
                          /\ next_of(h, it) = f
                          /\ \A a \in F : a <= it \/ f <= a
        BY <2>1
    <2>3. it \in F \ {h.end} /\ next_of(h, it) = f /\ it < b
        BY <1>5, <2>2 DEF Neighbours, Leads
    <2>4. it \in Nat /\ it \in Place /\ it # f
        BY <1>2, <1>3, <2>1, <2>3
    <2>5. \A a \in F : a <= it \/ f <= a
        BY <1>1, <2>3 DEF Linked
    <2>6. QED
        BY <2>3, <2>4, <2>5
<1>7. b + size <= f
    <2>1. b + size <= f \/ Reach(h, f) <= b
        BY <1>6
    <2>2. Reach(h, f) \in Nat /\ f + STRUCT_SIZE <= Reach(h, f)
        BY <1>2, <1>6
    <2>3. QED
        BY <1>3, <1>6, <2>1, <2>2
<1>8. it # NONE => Reach(h, it) <= b /\ size_of(h, it) \in Nat /\ it + size_of(h, it) <= b
    <2>1. SUFFICES ASSUME it # NONE
                   PROVE  Reach(h, it) <= b /\ size_of(h, it) \in Nat /\ it + size_of(h, it) <= b
        OBVIOUS
    <2>2. it \in F /\ it \in Nat /\ it < b
        BY <1>6, <2>1
    <2>3. b + size <= it \/ Reach(h, it) <= b
        BY <2>2
    <2>4. Reach(h, it) \in Nat /\ size_of(h, it) \in Nat /\ it + size_of(h, it) <= Reach(h, it)
        BY <1>2, <2>2
    <2>5. QED
        BY <1>3, <2>2, <2>3, <2>4
<1>9. joins => it # NONE /\ it + size_of(h, it) = b
    BY DEF JoinsBefore
<1>10. /\ insert \in Place /\ insert \in Nat /\ insert <= b
       /\ insert_size \in Nat /\ OnGrid(insert_size) /\ size <= insert_size
       /\ insert + insert_size = b + size /\ insert < f
       /\ insert # h.end
    <2>1. CASE joins
        <3>1. it # NONE /\ it + size_of(h, it) = b /\ it \in Place /\ it \in Nat /\ size_of(h, it) \in Nat
            BY <1>6, <1>8, <1>9, <2>1
        <3>2. OnGrid(size_of(h, it) + size)
            <4>1. OnGrid(size_of(h, it))
                BY <1>2, <1>6, <3>1
            <4>2. QED
                BY <3>1, <4>1, Aligned
        <3>3. it # h.end
            BY <1>6, <3>1
        <3>4. QED
            BY <1>3, <1>6, <2>1, <3>1, <3>2, <3>3
    <2>2. CASE ~ joins
        BY <1>1, <1>3, <1>4, <1>6, <2>2
    <2>3. QED
        BY <2>1, <2>2
<1>11. Merge(h, it, f, b, size) = [at |-> insert, size |-> total,
                                   lost |-> IF absorbs THEN {f} ELSE {}]
    <2>1. Absorbs(h, b + size, f) = absorbs
        BY <1>10
    <2>2. (IF joins THEN size_of(h, it) ELSE 0) + size = insert_size
        BY <1>10
    <2>3. QED
        BY <2>1, <2>2 DEF Merge
<1>12. absorbs => b + size = f /\ f # h.end
    BY <1>10 DEF Absorbs
<1>13. size_of(h, f) \in Nat /\ OnGrid(size_of(h, f)) /\ f + size_of(h, f) <= N /\ f <= N
       /\ header_of(h, f).size = size_of(h, f)
       /\ (absorbs => f + size_of(h, f) <= next_of(h, f))
    <2>1. size_of(h, f) \in Nat /\ OnGrid(size_of(h, f)) /\ header_of(h, f).size = size_of(h, f)
          /\ f + size_of(h, f) <= Reach(h, f) /\ Reach(h, f) \in Nat
        BY <1>2, <1>6
    <2>2. f # h.end => f + size_of(h, f) <= next_of(h, f)
        <3>1. SUFFICES ASSUME f # h.end PROVE f + size_of(h, f) <= next_of(h, f)
            OBVIOUS
        <3>2. next_of(h, f) \in F /\ f < next_of(h, f)
            BY <1>1, <1>6, <3>1 DEF Linked
        <3>3. Reach(h, f) <= next_of(h, f) /\ next_of(h, f) \in Nat
            BY <1>2, <1>6, <3>2, FreeNodes
        <3>4. QED
            BY <1>6, <2>1, <3>3
    <2>3. f # h.end => next_of(h, f) \in Nat /\ next_of(h, f) <= N
        BY <1>1, <1>2, <1>6, PlaceFacts DEF Linked
    <2>4. f = h.end => size_of(h, f) = 0
        BY <2>1 DEF FreeList, Laid
    <2>5. f <= N
        BY <1>6, PlaceFacts
    <2>6. f + size_of(h, f) <= N
        BY <1>3, <1>6, <2>1, <2>2, <2>3, <2>4, <2>5
    <2>7. QED
        BY <1>12, <2>1, <2>2, <2>5, <2>6
<1>14. /\ total \in Nat /\ OnGrid(total) /\ STRUCT_SIZE <= total /\ total < ALLOCATED_BIT
       /\ insert_size < ALLOCATED_BIT
       /\ insert + total <= IF absorbs THEN next_of(h, f) ELSE f
    <2>1. CASE absorbs
        <3>1. OnGrid(total)
            BY <1>10, <1>13, <2>1, Aligned
        <3>2. QED
            BY <1>3, <1>10, <1>12, <1>13, <2>1, <3>1
    <2>2. CASE ~ absorbs
        <3>1. total = insert_size
            BY <1>10, <2>2
        <3>2. insert + insert_size <= f
            BY <1>7, <1>10
        <3>3. insert_size < ALLOCATED_BIT
            BY <1>3, <1>6, <1>10, <1>13, <3>2
        <3>4. STRUCT_SIZE <= insert_size
            BY <1>3, <1>10
        <3>5. QED
            BY <1>10, <2>2, <3>1, <3>2, <3>3, <3>4
    <2>3. QED
        BY <2>1, <2>2
<1> DEFINE v == IF absorbs THEN next_of(h, f) ELSE f
<1>15. v \in F /\ v \in Place /\ v \in Nat /\ v < ALLOCATED_BIT /\ v # insert
       /\ v \in 0..WORD_MOD - 1 /\ total \in 0..WORD_MOD - 1 /\ insert_size \in 0..WORD_MOD - 1
       /\ b < v
    <2>1. v \in F /\ (v = f \/ f < v)
        <3>1. f # h.end => next_of(h, f) \in F /\ f < next_of(h, f)
            BY <1>1, <1>6 DEF Linked
        <3>2. QED
            BY <1>6, <1>12, <3>1
    <2>2. v \in Place /\ v \in Nat /\ v < ALLOCATED_BIT
        BY <1>2, <2>1, PlaceFacts
    <2>3. b < v /\ v # insert
        BY <1>3, <1>6, <1>10, <2>1, <2>2
    <2> HIDE DEF v
    <2>4. QED
        BY <1>3, <1>10, <1>14, <2>1, <2>2, <2>3
<1>16. /\ Kept(h, grown, {insert}) /\ grown \in HeapType
       /\ grown.start_next = h.start_next /\ grown.end = h.end
       /\ header_of(grown, insert).size = insert_size
       /\ \A a \in F \ {insert} : header_of(grown, a) = header_of(h, a)
    <2>1. CASE joins
        <3>1. grown = set_raw_size(h, it, insert_size) /\ insert = it /\ it \in F /\ it \in Place
            BY <1>6, <1>9, <2>1
        <3> HIDE DEF grown, insert, insert_size
        <3>2. Wrote(h, grown, it, header_of(h, it).next, insert_size)
            BY <1>1, <1>15, <3>1, WroteSize
        <3>3. Kept(h, grown, {it})
            BY <1>1, <1>14, <3>1, <3>2, WroteKept
        <3>4. header_of(grown, it).size = insert_size
            BY <3>2 DEF Wrote
        <3>5. \A a \in F \ {it} : header_of(grown, a) = header_of(h, a)
            BY <1>2, <3>1, <3>2 DEF Wrote
        <3>6. grown.start_next = h.start_next /\ grown.end = h.end /\ grown \in HeapType
            BY <3>2 DEF Wrote, HeapType
        <3>7. QED
            BY <3>1, <3>3, <3>4, <3>5, <3>6
    <2>2. CASE ~ joins
        <3>1. grown = h /\ insert = b /\ insert_size = size
            BY <2>2
        <3> HIDE DEF grown, insert, insert_size
        <3>2. Kept(h, h, {b})
            BY <1>1 DEF Kept, HeapType
        <3>3. QED
            BY <1>1, <3>1, <3>2
    <2>3. QED
        BY <2>1, <2>2
<1>17. Wrote(grown, linked, insert, v, total)
    <2>1. header_of(grown, f) = header_of(h, f)
        BY <1>6, <1>10, <1>16
    <2>2. CASE absorbs
        <3>1. Unmarked(header_of(grown, f).size) = size_of(h, f)
            BY <2>1 DEF size_of
        <3>2. header_of(grown, f).next = v
            BY <2>1, <2>2 DEF next_of
        <3>3. insert_size + Unmarked(header_of(grown, f).size) = total
            BY <2>2, <3>1
        <3>4. linked = set_header(grown, insert, v, total)
            BY <2>2, <3>2, <3>3
        <3> HIDE DEF grown, linked, insert, total, v
        <3>5. QED
            BY <1>10, <1>15, <1>16, <3>4, WroteHeader
    <2>3. CASE ~ absorbs
        <3>1. linked = set_next(grown, insert, v) /\ total = insert_size
            BY <1>10, <2>3
        <3> HIDE DEF grown, linked, insert, total, v, insert_size
        <3>2. Wrote(grown, linked, insert, v, header_of(grown, insert).size)
            BY <1>10, <1>15, <1>16, <3>1, WroteNext
        <3>3. QED
            BY <1>16, <3>1, <3>2
    <2>4. QED
        BY <2>2, <2>3
<1> HIDE DEF grown, linked, v
<1>18. /\ Kept(h, linked, {insert}) /\ linked \in HeapType
       /\ linked.start_next = h.start_next /\ linked.end = h.end
       /\ header_of(linked, insert) = [next |-> v, size |-> total]
       /\ \A a \in F \ {insert} : header_of(linked, a) = header_of(h, a)
    <2>1. Kept(grown, linked, {insert})
        BY <1>10, <1>14, <1>15, <1>16, <1>17, WroteKept
    <2>2. Kept(h, linked, {insert} \cup {insert})
        BY <1>1, <1>16, <2>1, KeptTwice
    <2>3. linked \in HeapType /\ linked.start_next = h.start_next /\ linked.end = h.end
        BY <1>16, <1>17 DEF Wrote, HeapType
    <2>4. \A a \in F \ {insert} : Clear(insert, a)
        BY <1>2, <1>4, <1>6, <1>9
    <2>5. \A a \in F \ {insert} : header_of(linked, a) = header_of(grown, a)
        BY <1>2, <1>17, <2>4 DEF Wrote
    <2>6. header_of(linked, insert) = [next |-> v, size |-> total]
        BY <1>17 DEF Wrote
    <2>7. QED
        BY <1>16, <2>2, <2>3, <2>5, <2>6
<1>19. /\ Kept(h, h2, F \cup G) /\ h2 \in HeapType /\ h2.end = h.end
       /\ header_of(h2, insert) = [next |-> v, size |-> total]
       /\ \A a \in F \ {insert} : header_of(h2, a).size = header_of(h, a).size
       /\ \A a \in F \ {insert, it} : next_of(h2, a) = next_of(h, a)
       /\ joins => h2.start_next = h.start_next
       /\ ~ joins => /\ it = NONE => h2.start_next = b
                     /\ it # NONE => h2.start_next = h.start_next /\ next_of(h2, it) = b
    <2>0. insert \in F \cup G
        OBVIOUS
    <2>1. CASE joins
        <3>1. h2 = linked /\ insert = it
            BY <1>0, <2>1
        <3>2. Kept(h, h2, F \cup G)
            BY <1>18, <2>0, <3>1, KeptMore
        <3> HIDE DEF G, insert
        <3>3. QED
            BY <1>18, <2>1, <3>1, <3>2 DEF next_of
    <2>2. CASE ~ joins
        <3>1. insert = b /\ insert # it
            BY <1>3, <1>6, <2>2
        <3>2. h2 = set_next_from(linked, it, b)
            BY <1>0, <3>1
        <3>3. it = NONE \/ it \in Place
            BY <1>6
        <3>4. b \in 0..ALLOCATED_BIT - 1
            BY PlaceFacts, <1>3
        <3>5. /\ Kept(linked, h2, {it} \ {NONE})
              /\ it = NONE => h2.start_next = b
              /\ it # NONE => /\ h2.start_next = linked.start_next
                              /\ header_of(h2, it) = [next |-> b, size |-> header_of(linked, it).size]
            BY <1>18, <3>2, <3>3, <3>4, LinkedFrom
        <3>6. \A a \in (F \cup {b}) \ {it} : header_of(h2, a) = header_of(linked, a)
            <4>1. SUFFICES ASSUME NEW a \in (F \cup {b}) \ {it}
                           PROVE  header_of(h2, a) = header_of(linked, a)
                OBVIOUS
            <4>2. a \in Place /\ {it} \ {NONE} \subseteq Place
                BY <1>2, <3>3
            <4>3. \A c \in {it} \ {NONE} : Clear(c, a)
                BY <1>2, <1>4, <1>6 DEF Clear
            <4>4. QED
                BY <1>18, <3>5, <4>2, <4>3, KeptHeader
        <3>7. Kept(h, h2, F \cup G)
            <4>1. Kept(h, h2, {insert} \cup ({it} \ {NONE}))
                BY <1>1, <1>18, <3>5, KeptTwice
            <4>2. {insert} \cup ({it} \ {NONE}) \subseteq F \cup G
                BY <1>6, <2>0
            <4>3. QED
                BY <4>1, <4>2, KeptMore
        <3>8. h2 \in HeapType /\ h2.end = h.end
            BY <1>18, <3>5 DEF Kept, HeapType
        <3>9. \A a \in F : header_of(h2, a).size = header_of(h, a).size
            <4>1. SUFFICES ASSUME NEW a \in F PROVE header_of(h2, a).size = header_of(h, a).size
                OBVIOUS
            <4>2. header_of(linked, a) = header_of(h, a)
                BY <1>4, <1>18, <3>1
            <4>3. CASE a = it
                BY <1>2, <3>5, <4>2, <4>3
            <4>4. CASE a # it
                BY <3>6, <4>2, <4>4
            <4>5. QED
                BY <4>3, <4>4
        <3>10. \A a \in F \ {it} : next_of(h2, a) = next_of(h, a)
            BY <1>4, <1>18, <3>1, <3>6 DEF next_of
        <3>11. header_of(h2, b) = [next |-> v, size |-> total]
            BY <1>18, <3>1, <3>6
        <3>12. it # NONE => h2.start_next = h.start_next /\ next_of(h2, it) = b
            BY <1>18, <3>5 DEF next_of
        <3> HIDE DEF G
        <3>13. QED
            BY <2>2, <3>1, <3>5, <3>7, <3>8, <3>9, <3>10, <3>11, <3>12
    <2>3. QED
        BY <2>1, <2>2
<1>20. \A a \in F : a <= insert \/ f <= a
    <2>1. CASE it = NONE
        <3>1. f = h.start_next
            BY <1>2, <1>5, <2>1 DEF Neighbours, Leads
        <3>2. QED
            BY <1>1, <3>1 DEF Linked
    <2>2. CASE it # NONE
        <3>1. it <= insert
            BY <1>6, <1>3, <2>2
        <3>2. SUFFICES ASSUME NEW a \in F, a <= it PROVE a <= insert
            BY <1>6, <2>2
        <3>3. a \in Nat /\ it \in Nat /\ insert \in Nat
            BY <1>2, <1>6, <1>10, <2>2
        <3> HIDE DEF insert
        <3>4. QED
            BY <3>1, <3>2, <3>3
    <2>3. QED
        BY <2>1, <2>2
<1>21. Linked(h2, G)
    <2>1. CASE absorbs
        <3>1. v = next_of(h, f) /\ f \in F \ {h.end} /\ Leads(h, F, it, f)
            BY <1>5, <1>12, <2>1 DEF v, Neighbours
        <3>2. CASE joins
            <4>1. insert = it /\ it # NONE /\ it \in F /\ it # f /\ it < f
                BY <1>6, <1>9, <3>2, <1>10
            <4>2. next_of(h2, it) = v
                BY <1>19, <4>1 DEF next_of
            <4>3. Relinked(h, h2, F \ {f}, it, v)
                BY <1>19, <3>2, <4>1, <4>2 DEF Relinked
            <4>4. it < v
                BY <1>3, <1>6, <1>15, <4>1
            <4>5. Linked(h2, (F \ {f}) \cup {v})
                BY <1>1, <1>15, <3>1, <4>3, <4>4, LinkSwap
            <4>6. v # f
                BY <1>1, <1>6, <3>1 DEF Linked
            <4>7. (F \ {f}) \cup {v} = G
                BY <1>15, <2>1, <4>1, <4>6
            <4>8. QED
                BY <4>5, <4>7
        <3>3. CASE ~ joins
            <4>1. insert = b
                BY <3>3
            <4>2. next_of(h2, b) = v
                BY <1>19, <4>1 DEF next_of
            <4>3. Relinked(h, h2, F \ {f}, it, b)
                BY <1>4, <1>19, <3>3, <4>1 DEF Relinked
            <4>4. b <= v /\ (it = NONE \/ it < b)
                BY <1>3, <1>6, <1>15
            <4>5. Linked(h2, (F \ {f}) \cup {b})
                BY <1>1, <1>15, <3>1, <4>2, <4>3, <4>4, LinkSwap
            <4>6. QED
                BY <2>1, <4>1, <4>5
        <3>4. QED
            BY <3>2, <3>3
    <2>2. CASE ~ absorbs
        <3>1. v = f /\ Leads(h, F, it, f) /\ G = F \cup {insert}
            BY <1>5, <2>2 DEF v, Neighbours
        <3>2. CASE joins
            <4>1. insert = it /\ it # NONE /\ it \in F \ {h.end} /\ next_of(h, it) = f
                BY <1>6, <1>9, <3>2
            <4>2. next_of(h2, it) = f
                BY <1>19, <3>1, <4>1 DEF next_of
            <4>3. /\ h2.start_next = h.start_next /\ h2.end = h.end
                  /\ \A a \in F : next_of(h2, a) = next_of(h, a)
                BY <1>19, <3>2, <4>1, <4>2
            <4>4. Linked(h2, F)
                BY <1>1, <4>3 DEF Linked
            <4>5. G = F
                BY <3>1, <4>1
            <4>6. QED
                BY <4>4, <4>5
        <3>3. CASE ~ joins
            <4>1. insert = b
                BY <3>3
            <4>2. next_of(h2, b) = f
                BY <1>19, <3>1, <4>1 DEF next_of
            <4>3. Relinked(h, h2, F, it, b)
                BY <1>4, <1>19, <3>3, <4>1 DEF Relinked
            <4>4. b < f /\ (it = NONE \/ it < b)
                BY <1>6
            <4>5. Linked(h2, F \cup {b})
                BY <1>1, <1>6, <3>1, <4>2, <4>3, <4>4, LinkIn
            <4>6. QED
                BY <3>1, <4>1, <4>5
        <3>4. QED
            BY <3>2, <3>3
    <2>3. QED
        BY <2>1, <2>2
<1> HIDE DEF joins
<1>22. Laid(h2, F \ {insert})
    BY <1>1, <1>10, <1>19, LaidSame
<1>23. /\ header_of(h2, insert).size = total /\ size_of(h2, insert) = total
       /\ Reach(h2, insert) = insert + total
    <2>1. header_of(h2, insert).size = total
        BY <1>19
    <2> HIDE DEF total, insert
    <2>2. size_of(h2, insert) = total
        BY <1>3, <1>14, <2>1 DEF size_of, Unmarked
    <2>3. Reach(h2, insert) = insert + total
        BY <1>3, <1>14, <2>2 DEF Reach
    <2>4. QED
        BY <2>1, <2>2, <2>3
<1>24. ASSUME NEW a \in F \ {insert}, a < insert
       PROVE  Reach(h2, a) <= insert
    <2>1. Reach(h2, a) = Reach(h, a)
        BY <1>19 DEF Reach, size_of
    <2>2. a \in Nat /\ Reach(h, a) \in Nat /\ a + STRUCT_SIZE <= Reach(h, a)
        BY <1>2
    <2>3. CASE insert \in F
        BY <1>24, <2>1, <2>3, FreeNodes
    <2>4. CASE insert \notin F
        <3>1. insert = b
            BY <1>6, <1>9, <2>4
        <3>2. b + size <= a \/ Reach(h, a) <= b
            OBVIOUS
        <3>3. a < b
            BY <1>24, <3>1
        <3>4. ~ (b + size <= a)
            BY <1>3, <2>2, <3>3
        <3>5. QED
            BY <2>1, <3>1, <3>2, <3>4
    <2>5. QED
        BY <2>3, <2>4
<1>25. ASSUME NEW a \in (F \ (IF absorbs THEN {f} ELSE {})) \ {insert}, insert < a
       PROVE  insert + total <= a
    <2>1. a \in Nat /\ f <= a
        BY <1>2, <1>10, <1>20, <1>25
    <2>2. CASE absorbs
        <3>1. f < a /\ f # h.end
            BY <1>6, <1>12, <2>1, <2>2
        <3>2. a <= f \/ next_of(h, f) <= a
            BY <1>1, <1>6, <3>1 DEF Linked
        <3>3. next_of(h, f) \in Nat /\ next_of(h, f) <= a
            BY <1>6, <1>15, <2>1, <2>2, <3>1, <3>2 DEF v
        <3>4. insert + total <= next_of(h, f)
            BY <1>14, <2>2
        <3> HIDE DEF insert, total
        <3>5. QED
            BY <1>10, <1>14, <2>1, <3>3, <3>4
    <2>3. CASE ~ absorbs
        <3>1. insert + total <= f
            BY <1>14, <2>3
        <3> HIDE DEF insert, total
        <3>2. QED
            BY <1>6, <1>10, <1>14, <2>1, <3>1
    <2>4. QED
        BY <2>2, <2>3
<1>26. Laid(h2, G)
    <2>1. ASSUME NEW a \in G
          PROVE  /\ header_of(h2, a).size \in 0..ALLOCATED_BIT - 1
                 /\ OnGrid(header_of(h2, a).size)
                 /\ header_of(h2, a).size = 0 \/ header_of(h2, a).size >= STRUCT_SIZE
        <3>1. CASE a = insert
            <4> HIDE DEF insert, total
            <4>1. QED
                BY <1>3, <1>14, <1>23, <3>1
        <3>2. CASE a # insert
            <4>1. a \in F \ {insert}
                BY <3>2
            <4> HIDE DEF insert
            <4>2. QED
                BY <1>22, <4>1 DEF Laid
        <3>3. QED
            BY <3>1, <3>2
    <2>2. header_of(h2, h2.end).size = 0
        BY <1>22 DEF Laid
    <2>3. ASSUME NEW a \in G, NEW c \in G, a < c PROVE Reach(h2, a) <= c
        <3>1. CASE a = insert /\ c = insert
            BY <1>10, <2>3, <3>1
        <3>2. CASE a = insert /\ c # insert
            <4>1. c \in (F \ (IF absorbs THEN {f} ELSE {})) \ {insert} /\ insert < c
                BY <2>3, <3>2
            <4>2. insert + total <= c
                BY <1>25, <4>1
            <4> HIDE DEF insert, total
            <4>3. QED
                BY <1>23, <3>2, <4>2
        <3>3. CASE a # insert /\ c = insert
            BY <1>24, <2>3, <3>3
        <3>4. CASE a # insert /\ c # insert
            <4>1. a \in F \ {insert} /\ c \in F \ {insert}
                BY <3>4
            <4> HIDE DEF insert
            <4>2. QED
                BY <1>22, <2>3, <4>1 DEF Laid
        <3>5. QED
            BY <3>1, <3>2, <3>3, <3>4
    <2> HIDE DEF G
    <2>4. QED
        BY <2>1, <2>2, <2>3 DEF Laid
<1> DEFINE m == Merge(h, it, f, b, size)
<1>27. m.at = insert /\ m.size = total /\ m.lost = (IF absorbs THEN {f} ELSE {})
    BY <1>11
<1>28. (F \ m.lost) \cup {m.at} = G
    BY <1>27
<1>29. FreeList(h2, G)
    BY <1>19, <1>21, <1>26 DEF FreeList
<1> HIDE DEF m, G, insert, total
<1>30. Inserted(h, F, it, f, b, size, h2)
    BY <1>5, <1>19, <1>23, <1>27, <1>28, <1>29 DEF m, Inserted
<1>31. QED
    BY <1>30 DEF h2

-----------------------------------------------------------------------------
(* Laying out.                                                             *)

LEMMA AlignDown ==
    ASSUME NEW v \in Nat
    PROVE  align_down(v) \in Nat /\ OnGrid(align_down(v)) /\ align_down(v) <= v
           /\ v < align_down(v) + ALIGN
<1>1. ALIGN = 4 \/ ALIGN = 8 \/ ALIGN = 16
    BY Geometry
<1>2. CASE ALIGN = 4
    BY <1>2 DEF OnGrid, align_down
<1>3. CASE ALIGN = 8
    BY <1>3 DEF OnGrid, align_down
<1>4. CASE ALIGN = 16
    BY <1>4 DEF OnGrid, align_down
<1>5. QED
    BY <1>1, <1>2, <1>3, <1>4

\* A region that fits starts and ends at places.
LEMMA RegionPlaces ==
    ASSUME NEW region \in [start : Nat, size : Nat], RegionFits(region)
    PROVE  /\ RegionStart(region) \in Place /\ RegionStart(region) \in Nat
           /\ RegionEnd(region) \in Place /\ RegionEnd(region) \in Nat
           /\ RegionStart(region) < RegionEnd(region)
<1>1. STRUCT_SIZE \in Nat /\ USIZE_MAX \in Nat /\ ALIGN \in Nat \ {0}
    BY Geometry
<1> DEFINE v == IF region.start + ALIGN - 1 > USIZE_MAX THEN USIZE_MAX
                ELSE region.start + ALIGN - 1
<1>2. v \in Nat
    BY <1>1
<1>3. RegionStart(region) = align_down(v)
    BY DEF RegionStart, align_up
<1> HIDE DEF v
<1>4. RegionStart(region) \in Nat /\ OnGrid(RegionStart(region))
    BY <1>2, <1>3, AlignDown
<1> DEFINE t == SatSub(RegionTop(region), STRUCT_SIZE)
<1>5. RegionTop(region) \in Nat
    BY <1>4 DEF RegionTop, SatSub
<1>6. t \in Nat
    BY <1>1, <1>5 DEF SatSub
<1>7. RegionEnd(region) = align_down(t)
    BY DEF RegionEnd
<1> HIDE DEF t
<1>8. RegionEnd(region) \in Nat /\ OnGrid(RegionEnd(region))
    BY <1>6, <1>7, AlignDown
<1>9. RegionStart(region) < RegionEnd(region) /\ RegionEnd(region) + STRUCT_SIZE <= N
    BY <1>4, <1>8 DEF RegionFits
<1>10. N \in Nat /\ RegionStart(region) + STRUCT_SIZE <= N
    BY <1>1, <1>4, <1>8, <1>9, Geometry
<1>11. QED
    BY <1>4, <1>8, <1>9, <1>10, IsPlace

\* A free list is its words, start_next and end.
LEMMA FreeListFields ==
    ASSUME NEW h, NEW F, FreeList(h, F), NEW h2 \in HeapType,
           h2.store = h.store, h2.start_next = h.start_next, h2.end = h.end
    PROVE  FreeList(h2, F) /\ \A a : header_of(h2, a) = header_of(h, a)
<1>1. \A a : header_of(h2, a) = header_of(h, a)
    BY DEF header_of
<1>2. \A a : size_of(h2, a) = size_of(h, a) /\ next_of(h2, a) = next_of(h, a)
             /\ Reach(h2, a) = Reach(h, a)
    BY <1>1 DEF size_of, next_of, Reach
<1>3. Linked(h2, F)
    BY <1>2 DEF FreeList, Linked
<1>4. Laid(h2, F)
    BY <1>1, <1>2 DEF FreeList, Laid
<1>5. QED
    BY <1>1, <1>3, <1>4 DEF FreeList

\* Where two places never share a word, no place has a marked size word.
Tidy(h) ==
    ALIGN = STRUCT_SIZE => \A a \in Place : header_of(h, a).size < ALLOCATED_BIT

LEMMA WroteTidy ==
    ASSUME NEW h \in HeapType, Tidy(h), NEW h2, NEW a \in Place, NEW next, NEW size,
           Wrote(h, h2, a, next, size), size < ALLOCATED_BIT
    PROVE  Tidy(h2)
<1> SUFFICES ASSUME ALIGN = STRUCT_SIZE, NEW b \in Place
             PROVE  header_of(h2, b).size < ALLOCATED_BIT
    BY DEF Tidy
<1>1. CASE b = a
    BY <1>1 DEF Wrote
<1>2. CASE b # a
    <2>1. a \in Nat /\ b \in Nat /\ OnGrid(a) /\ OnGrid(b)
        BY PlaceFacts
    <2>2. Clear(a, b)
        BY <1>2, <2>1, Aligned DEF Clear
    <2>3. header_of(h2, b) = header_of(h, b)
        BY <2>2 DEF Wrote
    <2>4. QED
        BY <2>3 DEF Tidy
<1>3. QED
    BY <1>1, <1>2

\* One turn of define_regions' loop, and Heap4::init: a region's block and its
\* end marker are put behind the list there is.
AddRegion(h, previous, start, end) ==
    [Thread(set_header(set_header(h, end, NONE, 0), start, end, end - start), previous, start)
        EXCEPT !.end = end]

LEMMA AddRegionOutcome ==
    ASSUME NEW h \in HeapType, NEW F, NEW previous,
           (previous = NONE /\ F = {}) \/ (FreeList(h, F) /\ previous = h.end),
           NEW start \in Place, NEW end \in Place, start + STRUCT_SIZE <= end,
           previous # NONE => previous + STRUCT_SIZE <= start
    PROVE  LET h2 == AddRegion(h, previous, start, end)
           IN  /\ h2 = [h EXCEPT !.store = h2.store, !.start_next = h2.start_next, !.end = end]
               /\ FreeList(h2, F \cup {start, end})
               /\ size_of(h2, start) = end - start /\ size_of(h2, end) = 0
               /\ \A a \in F : size_of(h2, a) = size_of(h, a) /\ a < start /\ Reach(h, a) <= start
<1> DEFINE w1 == set_header(h, end, NONE, 0)
           w2 == set_header(w1, start, end, end - start)
           w3 == Thread(w2, previous, start)
           h2 == AddRegion(h, previous, start, end)
           G == F \cup {start, end}
<1>1. h2 = [w3 EXCEPT !.end = end]
    BY DEF AddRegion
<1>2. /\ STRUCT_SIZE \in Nat \ {0} /\ ALLOCATED_BIT \in Nat /\ WORD_MOD = 2 * ALLOCATED_BIT
      /\ NONE \in 0..WORD_MOD - 1 /\ 0 \in 0..WORD_MOD - 1
    BY Geometry
<1>3. /\ start \in Nat /\ end \in Nat /\ start < end /\ end < ALLOCATED_BIT /\ start < ALLOCATED_BIT
      /\ start # NONE /\ end # NONE /\ OnGrid(start) /\ OnGrid(end)
      /\ end \in 0..WORD_MOD - 1 /\ end - start \in 0..WORD_MOD - 1
      /\ start \in 0..ALLOCATED_BIT - 1
      /\ end - start \in Nat /\ end - start < ALLOCATED_BIT /\ end - start >= STRUCT_SIZE
      /\ OnGrid(end - start)
    <2>1. /\ start \in Nat /\ end \in Nat /\ end < ALLOCATED_BIT /\ start < ALLOCATED_BIT
          /\ start # NONE /\ end # NONE /\ OnGrid(start) /\ OnGrid(end)
        BY PlaceFacts
    <2>2. start < end
        BY <1>2, <2>1
    <2>3. OnGrid(end - start)
        BY <2>1, <2>2, Aligned
    <2>4. QED
        BY <1>2, <2>1, <2>2, <2>3
<1>4. /\ F \subseteq Place /\ F \subseteq Nat
      /\ \A a \in F : a < start /\ Reach(h, a) <= start /\ a + STRUCT_SIZE <= start
      /\ (previous = NONE) = (F = {})
      /\ previous = NONE \/ previous \in Place
    <2>1. CASE previous = NONE /\ F = {}
        BY <2>1
    <2>2. CASE FreeList(h, F) /\ previous = h.end
        <3>1. /\ F \subseteq Place /\ F \subseteq Nat /\ previous \in F /\ NONE \notin F
              /\ \A a \in F : Reach(h, a) \in Nat /\ a + STRUCT_SIZE <= Reach(h, a)
              /\ \A a, b \in F : a < b => Reach(h, a) <= b
            BY <2>2, FreeNodes
        <3>2. \A a \in F : a <= previous
            BY <2>2, LinkedNodes DEF FreeList
        <3>3. Reach(h, previous) = previous + STRUCT_SIZE
            <4>1. size_of(h, previous) = 0
                BY <2>2, <3>1, FreeNodes DEF FreeList, Laid
            <4>2. QED
                BY <2>2, <3>1, <4>1, FreeNodes
        <3>4. previous + STRUCT_SIZE <= start
            BY <3>1
        <3>5. ASSUME NEW a \in F PROVE Reach(h, a) <= start
            <4>1. CASE a = previous
                BY <3>3, <3>4, <4>1
            <4>2. CASE a # previous
                <5>1. a \in Nat /\ previous \in Nat /\ a < previous
                    BY <3>1, <3>2, <4>2
                <5>2. Reach(h, a) <= previous /\ Reach(h, a) \in Nat
                    BY <3>1, <5>1
                <5>3. QED
                    BY <1>2, <1>3, <3>4, <5>1, <5>2
            <4>3. QED
                BY <4>1, <4>2
        <3>6. ASSUME NEW a \in F PROVE a < start /\ a + STRUCT_SIZE <= start
            <4>1. a \in Nat /\ Reach(h, a) \in Nat /\ a + STRUCT_SIZE <= Reach(h, a)
                BY <3>1
            <4>2. QED
                BY <1>2, <1>3, <3>5, <4>1
        <3>7. QED
            BY <3>1, <3>5, <3>6
    <2>3. QED
        BY <2>1, <2>2
<1>5. Wrote(h, w1, end, NONE, 0)
    BY <1>2, WroteHeader
<1>6. w1 \in HeapType /\ w1.start_next = h.start_next /\ w1.end = h.end
    BY <1>5 DEF Wrote, HeapType
<1>7. Wrote(w1, w2, start, end, end - start)
    BY <1>3, <1>6, WroteHeader
<1>8. w2 \in HeapType /\ w2.start_next = h.start_next /\ w2.end = h.end
    BY <1>6, <1>7 DEF Wrote, HeapType
<1>9. /\ Kept(w2, w3, {previous} \ {NONE})
      /\ previous = NONE => w3.start_next = start
      /\ previous # NONE => /\ w3.start_next = h.start_next
                            /\ header_of(w3, previous) =
                                [next |-> start, size |-> header_of(w2, previous).size]
    BY <1>3, <1>4, <1>8, LinkedFrom DEF Thread
<1> HIDE DEF w1, w2, w3, h2
<1>10. /\ \A a \in F : Clear(start, a) /\ Clear(end, a)
       /\ Clear(start, end) /\ Clear(end, start)
    BY <1>2, <1>3, <1>4 DEF Clear
<1>11. \A a \in F : header_of(w2, a) = header_of(h, a)
    BY <1>4, <1>5, <1>7, <1>10 DEF Wrote
<1>12. header_of(w2, start) = [next |-> end, size |-> end - start]
       /\ header_of(w2, end) = [next |-> NONE, size |-> 0]
    BY <1>5, <1>7, <1>10 DEF Wrote
<1>13. \A a \in G \ {previous} : header_of(w3, a) = header_of(w2, a)
    <2>1. SUFFICES ASSUME NEW a \in G \ {previous} PROVE header_of(w3, a) = header_of(w2, a)
        OBVIOUS
    <2>2. a \in Place /\ {previous} \ {NONE} \subseteq Place
        BY <1>4
    <2>3. \A b \in {previous} \ {NONE} : Clear(b, a)
        <3>1. SUFFICES ASSUME previous # NONE PROVE Clear(previous, a)
            OBVIOUS
        <3>2. FreeList(h, F) /\ previous \in F
            BY <3>1, FreeNodes
        <3>3. CASE a \in F
            BY <2>1, <3>2, <3>3, FreeNodes
        <3>4. CASE a \notin F
            BY <1>2, <1>3, <1>4, <2>1, <3>2, <3>4 DEF Clear
        <3>5. QED
            BY <3>3, <3>4
    <2>4. QED
        BY <1>8, <1>9, <2>2, <2>3, KeptHeader
<1>14. /\ h2 \in HeapType /\ h2.end = end /\ h2.start_next = w3.start_next /\ h2.store = w3.store
       /\ h2 = [h EXCEPT !.store = h2.store, !.start_next = h2.start_next, !.end = end]
    <2>1. w3 \in HeapType /\ w3 = [w2 EXCEPT !.store = w3.store, !.start_next = w3.start_next]
        BY <1>9 DEF Kept
    <2>2. h2 \in HeapType /\ h2.end = end /\ h2.start_next = w3.start_next /\ h2.store = w3.store
        BY <1>1, <1>3, <2>1 DEF HeapType
    <2>3. w2 = [h EXCEPT !.store = w2.store]
        BY <1>5, <1>7, <1>6 DEF Wrote, HeapType
    <2>4. w3 = [h EXCEPT !.store = w3.store, !.start_next = w3.start_next]
        BY <2>1, <2>3 DEF HeapType
    <2>5. h2 = [h EXCEPT !.store = w3.store, !.start_next = w3.start_next, !.end = end]
        BY <1>1, <2>4 DEF HeapType
    <2>6. QED
        BY <2>2, <2>5
<1>15. \A a : header_of(h2, a) = header_of(w3, a)
    BY <1>14 DEF header_of
<1>16. /\ header_of(h2, start) = [next |-> end, size |-> end - start]
       /\ header_of(h2, end) = [next |-> NONE, size |-> 0]
       /\ \A a \in F : header_of(h2, a).size = header_of(h, a).size
       /\ \A a \in F \ {previous} : next_of(h2, a) = next_of(h, a)
       /\ previous # NONE => next_of(h2, previous) = start
    <2>1. previous # start /\ previous # end
        <3>1. previous # NONE => previous \in F
            BY FreeNodes
        <3>2. QED
            BY <1>2, <1>3, <1>4, <3>1
    <2>2. header_of(h2, start) = [next |-> end, size |-> end - start]
          /\ header_of(h2, end) = [next |-> NONE, size |-> 0]
        BY <1>12, <1>13, <1>15, <2>1
    <2>3. ASSUME NEW a \in F PROVE header_of(h2, a).size = header_of(h, a).size
        <3>1. CASE a # previous
            BY <1>11, <1>13, <1>15, <3>1
        <3>2. CASE a = previous
            <4>1. previous # NONE
                BY <1>4, <2>3
            <4>2. QED
                BY <1>9, <1>11, <1>15, <3>2, <4>1
        <3>3. QED
            BY <3>1, <3>2
    <2>4. \A a \in F \ {previous} : next_of(h2, a) = next_of(h, a)
        BY <1>11, <1>13, <1>15 DEF next_of
    <2>5. previous # NONE => next_of(h2, previous) = start
        BY <1>9, <1>15 DEF next_of
    <2>6. QED
        BY <2>2, <2>3, <2>4, <2>5
<1>17. \A a \in F : size_of(h2, a) = size_of(h, a) /\ Reach(h2, a) = Reach(h, a)
    BY <1>16 DEF size_of, Reach
<1>18. size_of(h2, start) = end - start /\ size_of(h2, end) = 0
    BY <1>2, <1>3, <1>16 DEF size_of, Unmarked
<1>19. Linked(h2, G)
    <2>1. G \subseteq Place /\ h2.end \in G /\ \A a \in G : a <= h2.end
        BY <1>3, <1>4, <1>14
    <2>2. h2.start_next \in G /\ \A a \in G : h2.start_next <= a
        <3>1. CASE previous = NONE
            BY <1>3, <1>4, <1>9, <1>14, <3>1
        <3>2. CASE previous # NONE
            <4>1. FreeList(h, F) /\ h2.start_next = h.start_next
                BY <1>9, <1>14, <3>2
            <4>2. h.start_next \in F /\ \A a \in F : h.start_next <= a
                BY <4>1, LinkedNodes DEF FreeList
            <4>3. h.start_next < start /\ h.start_next \in Nat
                BY <1>4, <4>2
            <4>4. QED
                BY <1>3, <4>1, <4>2, <4>3
        <3>3. QED
            BY <3>1, <3>2
    <2>3. ASSUME NEW a \in G \ {end} PROVE Follows(G, a, next_of(h2, a))
        <3>1. CASE a = start
            <4>1. next_of(h2, a) = end
                BY <1>16, <3>1 DEF next_of
            <4>2. QED
                BY <1>3, <1>4, <3>1, <4>1 DEF Follows
        <3>2. CASE a \in F /\ a = previous
            <4>1. next_of(h2, a) = start /\ previous # NONE
                BY <1>4, <1>16, <3>2
            <4>2. FreeList(h, F) /\ previous = h.end
                BY <4>1
            <4>3. \A b \in F : b <= previous
                BY <4>2, LinkedNodes DEF FreeList
            <4>4. QED
                BY <1>3, <1>4, <3>2, <4>1, <4>3 DEF Follows
        <3>3. CASE a \in F /\ a # previous
            <4>1. FreeList(h, F) /\ previous = h.end
                BY <3>3
            <4>2. Follows(F, a, next_of(h, a)) /\ next_of(h2, a) = next_of(h, a)
                BY <1>16, <3>3, <4>1, LinkedFollows DEF FreeList
            <4>3. next_of(h, a) < start /\ next_of(h, a) \in Nat
                BY <1>4, <4>2 DEF Follows
            <4>4. QED
                BY <1>3, <4>2, <4>3 DEF Follows
        <3>4. QED
            BY <3>1, <3>2, <3>3
    <2>4. next_of(h2, h2.end) = NONE
        BY <1>14, <1>16 DEF next_of
    <2>5. QED
        BY <1>14, <2>1, <2>2, <2>3, <2>4, LinkedFollows
<1>20. Laid(h2, G)
    <2>1. ASSUME NEW a \in G
          PROVE  /\ header_of(h2, a).size \in 0..ALLOCATED_BIT - 1
                 /\ OnGrid(header_of(h2, a).size)
                 /\ header_of(h2, a).size = 0 \/ header_of(h2, a).size >= STRUCT_SIZE
        <3>1. CASE a \in F
            <4>1. FreeList(h, F)
                BY <3>1
            <4>2. QED
                BY <1>16, <3>1, <4>1 DEF FreeList, Laid
        <3>2. CASE a = start
            BY <1>2, <1>3, <1>16, <3>2
        <3>3. CASE a = end
            BY <1>2, <1>16, <3>3, AlignDown, Geometry DEF OnGrid
        <3>4. QED
            BY <3>1, <3>2, <3>3
    <2>2. header_of(h2, h2.end).size = 0
        BY <1>14, <1>16
    <2>3. Reach(h2, start) = end
        BY <1>2, <1>3, <1>18 DEF Reach
    <2>4. ASSUME NEW a \in G, NEW b \in G, a < b PROVE Reach(h2, a) <= b
        <3>1. CASE a = start
            BY <1>3, <1>4, <2>3, <2>4, <3>1
        <3>2. CASE a = end
            BY <1>3, <1>4, <2>4, <3>2
        <3>3. CASE a \in F /\ b \in F
            BY <1>17, <2>4, <3>3, FreeNodes
        <3>4. CASE a \in F /\ b \in {start, end}
            <4>1. Reach(h2, a) <= start /\ Reach(h, a) \in Nat /\ Reach(h2, a) \in Nat
                BY <1>4, <1>17, <3>4, FreeNodes
            <4>2. QED
                BY <1>3, <3>4, <4>1
        <3>5. QED
            BY <3>1, <3>2, <3>3, <3>4
    <2>5. QED
        BY <2>1, <2>2, <2>4 DEF Laid
<1>21. QED
    BY <1>4, <1>14, <1>17, <1>18, <1>19, <1>20 DEF FreeList, h2

LEMMA AddRegionTyped ==
    ASSUME NEW h \in HeapType, NEW previous, previous = NONE \/ previous \in Place,
           NEW start \in Place, NEW end \in Place, start < end
    PROVE  LET h2 == AddRegion(h, previous, start, end)
           IN  /\ h2 \in HeapType /\ h2.end = end
               /\ h2 = [h EXCEPT !.store = h2.store, !.start_next = h2.start_next, !.end = end]
               /\ Tidy(h) => Tidy(h2)
<1> DEFINE w1 == set_header(h, end, NONE, 0)
           w2 == set_header(w1, start, end, end - start)
           w3 == set_next_from(w2, previous, start)
           h2 == AddRegion(h, previous, start, end)
<1>1. h2 = [w3 EXCEPT !.end = end]
    BY DEF AddRegion, Thread
<1>2. /\ NONE \in 0..WORD_MOD - 1 /\ 0 \in 0..WORD_MOD - 1 /\ ALLOCATED_BIT \in Nat \ {0}
      /\ WORD_MOD = 2 * ALLOCATED_BIT
    BY Geometry
<1>3. /\ end \in 0..WORD_MOD - 1 /\ end - start \in 0..WORD_MOD - 1
      /\ end - start < ALLOCATED_BIT /\ start \in 0..ALLOCATED_BIT - 1 /\ end # NONE
    <2>1. start \in Nat /\ end \in Nat /\ end < ALLOCATED_BIT /\ start < ALLOCATED_BIT /\ end # NONE
        BY PlaceFacts
    <2>2. QED
        BY <1>2, <2>1
<1>4. Wrote(h, w1, end, NONE, 0)
    BY <1>2, WroteHeader
<1>5. w1 \in HeapType
    BY <1>4 DEF Wrote
<1>6. Wrote(w1, w2, start, end, end - start)
    BY <1>3, <1>5, WroteHeader
<1>7. w2 \in HeapType
    BY <1>6 DEF Wrote
<1>8. /\ Kept(w2, w3, {previous} \ {NONE})
      /\ previous = NONE \/ header_of(w3, previous) =
                                [next |-> start, size |-> header_of(w2, previous).size]
    BY <1>3, <1>7, LinkedFrom
<1> HIDE DEF w1, w2, w3, h2
<1>9. w3 \in HeapType /\ w3 = [w2 EXCEPT !.store = w3.store, !.start_next = w3.start_next]
    BY <1>8 DEF Kept
<1>10. h2 \in HeapType /\ h2.end = end /\ h2.start_next = w3.start_next /\ h2.store = w3.store
    BY <1>1, <1>3, <1>9 DEF HeapType
<1>11. h2 = [h EXCEPT !.store = h2.store, !.start_next = h2.start_next, !.end = end]
    <2>1. w2 = [h EXCEPT !.store = w2.store]
        BY <1>4, <1>6, <1>5 DEF Wrote, HeapType
    <2>2. w3 = [h EXCEPT !.store = w3.store, !.start_next = w3.start_next]
        BY <1>9, <2>1 DEF HeapType
    <2>3. h2 = [h EXCEPT !.store = w3.store, !.start_next = w3.start_next, !.end = end]
        BY <1>1, <2>2 DEF HeapType
    <2>4. QED
        BY <1>10, <2>3
<1>12. ASSUME Tidy(h) PROVE Tidy(h2)
    <2>1. Tidy(w1)
        BY <1>2, <1>4, <1>12, WroteTidy
    <2>2. Tidy(w2)
        BY <1>3, <1>5, <1>6, <2>1, WroteTidy
    <2>3. SUFFICES ASSUME ALIGN = STRUCT_SIZE, NEW a \in Place
                   PROVE  header_of(h2, a).size < ALLOCATED_BIT
        BY DEF Tidy
    <2>4. header_of(h2, a) = header_of(w3, a) /\ header_of(w2, a).size < ALLOCATED_BIT
        BY <1>10, <2>2, <2>3 DEF header_of, Tidy
    <2>5. CASE a = previous
        <3>1. previous # NONE
            BY <2>5, PlaceFacts
        <3>2. QED
            BY <1>8, <2>4, <2>5, <3>1
    <2>6. CASE a # previous
        <3>1. {previous} \ {NONE} \subseteq Place
            OBVIOUS
        <3>2. \A b \in {previous} \ {NONE} : Clear(b, a)
            <4>1. SUFFICES ASSUME previous # NONE PROVE Clear(previous, a)
                OBVIOUS
            <4>2. a \in Nat /\ previous \in Nat /\ OnGrid(a) /\ OnGrid(previous)
                BY <4>1, PlaceFacts
            <4>3. QED
                BY <2>3, <2>6, <4>2, Aligned DEF Clear
        <3>3. header_of(w3, a) = header_of(w2, a)
            BY <1>7, <1>8, <3>1, <3>2, KeptHeader
        <3>4. QED
            BY <2>4, <3>3
    <2>7. QED
        BY <2>5, <2>6
<1>13. QED
    BY <1>10, <1>11, <1>12 DEF h2

\* Heap4::init lays the whole arena out as one block, if it holds two headers.
(* What AddRegion does behind the regions before, as one formula each for   *)
(* what it starts from and what it leaves.                                 *)
Behind(h, F, previous) ==
    (previous = NONE /\ F = {}) \/ (FreeList(h, F) /\ previous = h.end)

Added(h, h2, F, start, end) ==
    /\ h2 = [h EXCEPT !.store = h2.store, !.start_next = h2.start_next, !.end = end]
    /\ FreeList(h2, F \cup {start, end})
    /\ size_of(h2, start) = end - start /\ size_of(h2, end) = 0
    /\ \A a \in F : size_of(h2, a) = size_of(h, a) /\ a < start /\ Reach(h, a) <= start

LEMMA RegionAdded ==
    ASSUME NEW h \in HeapType, NEW F, NEW previous, Behind(h, F, previous),
           NEW start \in Place, NEW end \in Place, start + STRUCT_SIZE <= end,
           previous # NONE => previous + STRUCT_SIZE <= start
    PROVE  Added(h, AddRegion(h, previous, start, end), F, start, end)
<1>1. (previous = NONE /\ F = {}) \/ (FreeList(h, F) /\ previous = h.end)
    BY DEF Behind
<1> HIDE DEF FreeList
<1>2. QED
    BY <1>1, AddRegionOutcome DEF Added

LEMMA InitOutcome ==
    ASSUME N >= 2 * STRUCT_SIZE, NEW h \in HeapType, ~ h.initialised
    PROVE  LET h2 == init(h)
               end == init(New).end
           IN  /\ end \in Place /\ end \in Nat /\ end >= STRUCT_SIZE
               /\ h2 = [h EXCEPT !.store = h2.store, !.start_next = h2.start_next, !.end = end,
                                 !.initialised = TRUE, !.free_bytes = end,
                                 !.minimum_ever_free = end]
               /\ FreeList(h2, {0, end})
               /\ size_of(h2, 0) = end /\ size_of(h2, end) = 0
               /\ Tidy(h) => Tidy(h2)
<1> DEFINE end == align_down(SatSub(N, STRUCT_SIZE))
           w == AddRegion(h, NONE, 0, end)
           h2 == init(h)
<1>1. N \in Nat /\ STRUCT_SIZE \in Nat \ {0}
      /\ ALIGN \in {4, 8, 16} /\ STRUCT_SIZE \in {8, 16} /\ N < ALLOCATED_BIT /\ ALLOCATED_BIT \in Nat
      /\ OnGrid(STRUCT_SIZE) /\ OnGrid(0)
    BY Geometry DEF OnGrid
<1>2. SatSub(N, STRUCT_SIZE) = N - STRUCT_SIZE /\ N - STRUCT_SIZE \in Nat
    BY <1>1 DEF SatSub
<1>3. end \in Nat /\ OnGrid(end) /\ end + STRUCT_SIZE <= N /\ N - STRUCT_SIZE < end + ALIGN
    BY <1>1, <1>2, AlignDown
<1>4. end >= STRUCT_SIZE
    <2>1. ~ (end < STRUCT_SIZE)
        <3>1. end < STRUCT_SIZE => end + ALIGN <= STRUCT_SIZE
            BY <1>1, <1>3, Aligned
        <3>2. QED
            BY <1>1, <1>3, <3>1
    <2>2. QED
        BY <1>1, <1>3, <2>1
<1>5. end \in Place /\ 0 \in Place
    BY <1>1, <1>3, IsPlace
<1>6. init(New).end = end
    BY DEF init, New
<1> HIDE DEF end
<1>7. /\ w = [h EXCEPT !.store = w.store, !.start_next = w.start_next, !.end = end]
      /\ FreeList(w, {0, end})
      /\ size_of(w, 0) = end - 0 /\ size_of(w, end) = 0
    <2>0. 0 + STRUCT_SIZE <= end
        BY <1>1, <1>3, <1>4
    <2>1. Behind(h, {}, NONE)
        BY DEF Behind
    <2>2. Added(h, w, {}, 0, end)
        BY <1>5, <2>0, <2>1, RegionAdded
    <2>3. QED
        BY <2>2 DEF Added
<1>8. w.start_next = 0 /\ w.end = end
    <2>1. w.start_next \in {0, end} /\ w.start_next <= 0
        BY <1>7 DEF FreeList, Linked
    <2>2. w.end = end
        BY <1>7 DEF HeapType
    <2>3. QED
        BY <1>1, <1>3, <1>4, <2>1, <2>2
<1>9. Tidy(h) => Tidy(w)
    <2>1. 0 < end
        BY <1>1, <1>3, <1>4
    <2>2. QED
        BY <1>5, <2>1, AddRegionTyped
<1>10. h2 = [w EXCEPT !.initialised = TRUE, !.start_next = 0, !.end = end,
                      !.free_bytes = end, !.minimum_ever_free = end]
    <2>1. end - 0 = end
        BY <1>3
    <2> DEFINE w2 == set_header(set_header(h, end, NONE, 0), 0, end, end)
    <2>2. w = [[w2 EXCEPT !.start_next = 0] EXCEPT !.end = end]
        BY <2>1 DEF AddRegion, Thread, set_next_from
    <2>3. h2 = [w2 EXCEPT !.initialised = TRUE, !.start_next = 0, !.end = end,
                          !.free_bytes = end, !.minimum_ever_free = end]
        BY DEF init, end
    <2>4. w2 \in HeapType
        <3>1. NONE \in 0..WORD_MOD - 1 /\ 0 \in 0..WORD_MOD - 1 /\ end \in 0..WORD_MOD - 1
            BY <1>1, <1>3, Geometry
        <3>2. set_header(h, end, NONE, 0) \in HeapType
            BY <1>5, <3>1, WroteHeader DEF Wrote
        <3>3. QED
            BY <1>5, <3>1, <3>2, WroteHeader DEF Wrote
    <2> HIDE DEF w2, w, h2
    <2>5. QED
        BY <2>2, <2>3, <2>4 DEF HeapType
<1> HIDE DEF w, h2
<1>11. w \in HeapType
    BY <1>7 DEF FreeList
<1>12. h2 \in HeapType /\ h2.store = w.store /\ h2.start_next = w.start_next /\ h2.end = w.end
    BY <1>3, <1>8, <1>10, <1>11 DEF HeapType
<1>13. FreeList(h2, {0, end}) /\ \A a : header_of(h2, a) = header_of(w, a)
    BY <1>7, <1>12, FreeListFields
<1>14. size_of(h2, 0) = end /\ size_of(h2, end) = 0
    BY <1>3, <1>7, <1>13 DEF size_of
<1>15. Tidy(w) => Tidy(h2)
    BY <1>13 DEF Tidy
<1>16. h2 = [h EXCEPT !.store = h2.store, !.start_next = h2.start_next, !.end = end,
                      !.initialised = TRUE, !.free_bytes = end,
                      !.minimum_ever_free = end]
    BY <1>7, <1>10, <1>11, <1>12 DEF HeapType
<1>17. QED
    BY <1>3, <1>4, <1>5, <1>6, <1>9, <1>13, <1>14, <1>15, <1>16 DEF h2

=============================================================================
