--------------------------- MODULE FirstFit_proofs ---------------------------
(***************************************************************************)
(* Proofs about FirstFit, for every set of layouts, every set of request   *)
(* sizes and every minimum block size.                                     *)
(***************************************************************************)
EXTENDS FirstFit, FiniteSetTheorems, TLAPS

\* The spans of one heap: regions A, free spans F, granted spans L.
Disjoint(F, L) ==
    /\ \A f, e \in F : f # e => Apart(f, e)
    /\ \A g, h \in L : g # h => Apart(g, h) /\ g.id # h.id
    /\ \A f \in F, g \in L : Apart(f, g)
Separate(F) == \A f, e \in F : ~ Touches(f, e)
Inside(s, A) == \E r \in A : r.at <= s.at /\ End(s) <= End(r)
Typed(A, F, L) == A \subseteq Span /\ F \subseteq Span /\ L \subseteq Grant
RegionsApart(A) == \A r, s \in A : r # s => Apart(r, s) /\ ~ Touches(r, s)

\* What granting and releasing preserve.  Coalescing stays inside a region
\* because regions do not touch; accounting needs the cells to be finite.
Sound(A, F, L) ==
    /\ Typed(A, F, L)
    /\ RegionsApart(A)
    /\ Disjoint(F, L)
    /\ Separate(F)
    /\ Cells(A) = Cells(F \cup L)
    /\ \A s \in F \cup L : Inside(s, A)
    /\ IsFiniteSet(Cells(F))

Counted(F, L, n, r, l) ==
    /\ n \in Nat
    /\ \A g \in L : g.id <= n
    /\ r = Cardinality(Cells(F))
    /\ l \in Nat
    /\ l <= r

FitInv == Sound(arena, free, live) /\ Counted(free, live, granted, room, low)

-----------------------------------------------------------------------------
(* Cells.                                                                  *)

\* A byte is in a set of spans when it is in one of them.
LEMMA CellsMember ==
    ASSUME NEW S, NEW x
    PROVE  x \in Cells(S) <=> \E s \in S : x \in s.at .. End(s) - 1
BY DEF Cells

LEMMA CellsUnion ==
    ASSUME NEW S, NEW T
    PROVE  Cells(S \cup T) = Cells(S) \cup Cells(T)
BY CellsMember

LEMMA CellsOne ==
    ASSUME NEW g
    PROVE  Cells({g}) = g.at .. End(g) - 1
<1>1. \A x : x \in Cells({g}) <=> x \in g.at .. End(g) - 1
    BY CellsMember
<1> DEFINE C == Cells({g})
           R == g.at .. End(g) - 1
<1>2. \A x : x \in C <=> x \in R
    BY <1>1
<1> HIDE DEF C, R
<1>3. C = R
    BY <1>2
<1>4. QED
    BY <1>3 DEF C, R

LEMMA RangeSize ==
    ASSUME NEW a \in Nat, NEW n \in Nat \ {0}
    PROVE  IsFiniteSet(a .. a + n - 1) /\ Cardinality(a .. a + n - 1) = n
<1>1. a + n - 1 \in Int /\ ~ (a > a + n - 1) /\ (a + n - 1) - a + 1 = n
    OBVIOUS
<1> DEFINE b == a + n - 1
<1> HIDE DEF b
<1>2. b \in Int /\ ~ (a > b) /\ b - a + 1 = n
    BY <1>1 DEF b
<1>3. IsFiniteSet(a .. b) /\ Cardinality(a .. b) = n
    BY <1>2, FS_Interval
<1>4. QED
    BY <1>3 DEF b

\* Two finite sets with nothing in common.
LEMMA DisjointSizes ==
    ASSUME NEW S, NEW T, IsFiniteSet(S), IsFiniteSet(T), S \cap T = {}
    PROVE  /\ Cardinality(S) \in Nat
           /\ Cardinality(T) \in Nat
           /\ Cardinality(S \cup T) = Cardinality(S) + Cardinality(T)
<1>1. Cardinality(S) \in Nat /\ Cardinality(T) \in Nat
    BY FS_CardinalityType
<1>2. Cardinality(S \cap T) = 0
    BY FS_EmptySet
<1>3. Cardinality(S \cup T) = Cardinality(S) + Cardinality(T) - Cardinality(S \cap T)
    BY FS_Union
<1>4. QED
    BY <1>1, <1>2, <1>3

LEMMA CellsFinite ==
    ASSUME NEW S \in SUBSET Span, IsFiniteSet(S)
    PROVE  IsFiniteSet(Cells(S))
<1> DEFINE Ranges == {s.at .. End(s) - 1 : s \in S}
           f == [s \in S |-> s.at .. End(s) - 1]
<1>1. IsFiniteSet(Ranges)
    <2>1. f \in Surjection(S, Ranges)
        BY DEF Surjection
    <2>2. QED
        BY <2>1, FS_Surjection
<1>2. \A R \in Ranges : IsFiniteSet(R)
    BY FS_Interval DEF Span, End
<1>3. QED
    BY <1>1, <1>2, FS_UNION DEF Cells

-----------------------------------------------------------------------------
(* Granting.                                                               *)

\* Taking a block from the free spans: what is granted and what remains make
\* up the span they came from.
LEMMA SplitCells ==
    ASSUME NEW s \in Span, NEW need \in Nat \ {0}, s.size >= need
    PROVE  /\ Taken(s, need) \in Nat \ {0}
           /\ Taken(s, need) <= s.size
           /\ \/ Remainder(s, need) = {} /\ Taken(s, need) = s.size
              \/ /\ Remainder(s, need)
                        = {[at |-> s.at + need, size |-> s.size - need]}
                 /\ Taken(s, need) = need
                 /\ s.size - need \in Nat \ {0}
BY MinimumAssumption DEF Taken, Remainder, Span

\* Heap4::alloc keeps the spans sound: the block it carves out of a free span
\* overlaps nothing and leaves no free neighbours.
LEMMA GrantSound ==
    ASSUME NEW A, NEW F, NEW L, Sound(A, F, L),
           NEW s \in F, NEW need \in Nat \ {0}, s.size >= need,
           NEW n \in Nat, \A g \in L : g.id <= n
    PROVE  LET g == [at |-> s.at, size |-> Taken(s, need), need |-> need, id |-> n + 1]
           IN  Sound(A, (F \ {s}) \cup Remainder(s, need), L \cup {g})
<1> DEFINE g == [at |-> s.at, size |-> Taken(s, need), need |-> need, id |-> n + 1]
           R == Remainder(s, need)
           F2 == (F \ {s}) \cup R
           L2 == L \cup {g}
<1>1. s \in Span /\ s.at \in Nat /\ s.size \in Nat \ {0}
    BY DEF Sound, Typed, Span
<1>2. /\ Taken(s, need) \in Nat \ {0}
      /\ Taken(s, need) <= s.size
      /\ \/ R = {} /\ Taken(s, need) = s.size
         \/ /\ R = {[at |-> s.at + need, size |-> s.size - need]}
            /\ Taken(s, need) = need
            /\ s.size - need \in Nat \ {0}
    BY <1>1, SplitCells
<1>3. g \in Grant /\ g.at = s.at /\ g.size = Taken(s, need) /\ g.id = n + 1
    BY <1>1, <1>2 DEF Grant
\* The remainder, if there is one, is the rest of s.
<1>4. \A t \in R : /\ t \in Span
                   /\ t.at = s.at + g.size
                   /\ End(t) = End(s)
                   /\ End(g) = t.at
    BY <1>1, <1>2, <1>3 DEF Span, End
<1>5. End(g) <= End(s) /\ s.at < End(g)
    BY <1>1, <1>2, <1>3 DEF End
<1> HIDE DEF g, R
<1>6. Typed(A, F2, L2)
    BY <1>3, <1>4 DEF Sound, Typed
<1>7. Disjoint(F2, L2)
    <2>1. \A f \in F2 : \/ f \in F \ {s} /\ Apart(f, s)
                        \/ f \in R
        BY DEF Sound, Disjoint
    <2>2. \A f \in F \ {s}, t \in R : Apart(f, t) /\ Apart(t, f) /\ f # t
        <3> SUFFICES ASSUME NEW f \in F \ {s}, NEW t \in R
                     PROVE  Apart(f, t) /\ Apart(t, f)
            BY <1>4 DEF Apart, End, Span
        <3>1. Apart(f, s) /\ f \in Span
            BY DEF Sound, Disjoint, Typed
        <3>2. QED
            BY <1>1, <1>2, <1>3, <1>4, <3>1 DEF Apart, End, Span
    <2>3. \A t, u \in R : t = u
        BY <1>2
    <2>4. \A f, e \in F2 : f # e => Apart(f, e)
        BY <2>2, <2>3 DEF Sound, Disjoint
    <2>5. \A h \in L : Apart(g, h) /\ Apart(h, g) /\ h.id # g.id
        <3> SUFFICES ASSUME NEW h \in L
                     PROVE  Apart(g, h) /\ Apart(h, g) /\ h.id # g.id
            OBVIOUS
        <3>1. Apart(s, h) /\ h \in Grant
            BY DEF Sound, Disjoint, Typed
        <3>2. QED
            BY <1>1, <1>2, <1>3, <1>5, <3>1 DEF Apart, End, Grant
    <2>6. \A f \in F \ {s} : Apart(f, g)
        <3> SUFFICES ASSUME NEW f \in F \ {s} PROVE Apart(f, g)
            OBVIOUS
        <3>1. Apart(f, s) /\ f \in Span
            BY DEF Sound, Disjoint, Typed
        <3>2. QED
            BY <1>1, <1>2, <1>3, <1>5, <3>1 DEF Apart, End, Span
    <2>7. \A t \in R : Apart(t, g)
        BY <1>1, <1>2, <1>3, <1>4 DEF Apart, End, Span
    <2>8. \A t \in R, h \in L : Apart(t, h)
        <3> SUFFICES ASSUME NEW t \in R, NEW h \in L PROVE Apart(t, h)
            OBVIOUS
        <3>1. Apart(s, h) /\ h \in Grant
            BY DEF Sound, Disjoint, Typed
        <3>2. QED
            BY <1>1, <1>2, <1>3, <1>4, <3>1 DEF Apart, End, Grant, Span
    <2>9. \A k, h \in L2 : k # h => Apart(k, h) /\ k.id # h.id
        BY <2>5 DEF Sound, Disjoint
    <2>10. \A f \in F2, k \in L2 : Apart(f, k)
        BY <2>6, <2>7, <2>8 DEF Sound, Disjoint
    <2>11. QED
        BY <2>4, <2>9, <2>10 DEF Disjoint
<1>8. Separate(F2)
    <2>1. \A f \in F \ {s}, t \in R : ~ Touches(f, t) /\ ~ Touches(t, f)
        <3> SUFFICES ASSUME NEW f \in F \ {s}, NEW t \in R
                     PROVE  ~ Touches(f, t) /\ ~ Touches(t, f)
            OBVIOUS
        <3>1. /\ f \in Span /\ Apart(f, s)
              /\ ~ Touches(f, s) /\ ~ Touches(s, f)
            BY DEF Sound, Disjoint, Typed, Separate
        <3>2. QED
            BY <1>1, <1>2, <1>3, <1>4, <3>1 DEF Apart, Touches, End, Span
    <2>2. \A t, u \in R : ~ Touches(t, u)
        BY <1>2, <1>4 DEF Touches, End, Span
    <2>3. QED
        BY <2>1, <2>2 DEF Sound, Separate
<1>9. Cells(F) = Cells(F2) \cup (g.at .. End(g) - 1)
      /\ Cells(F2) = Cells(F) \ (g.at .. End(g) - 1)
      /\ g.at .. End(g) - 1 \subseteq Cells(F)
    <2>1. \A x \in s.at .. End(s) - 1 :
            x \in g.at .. End(g) - 1 \/ \E t \in R : x \in t.at .. End(t) - 1
        <3>1. CASE R = {}
            BY <1>1, <1>2, <1>3, <3>1 DEF End
        <3>2. CASE R # {}
            <4>1. PICK t \in R : TRUE
                BY <3>2
            <4>2. t.at = s.at + g.size /\ End(t) = End(s) /\ End(g) = t.at
                BY <1>4
            <4>3. QED
                BY <1>1, <1>2, <1>3, <4>2 DEF End
        <3>3. QED
            BY <3>1, <3>2
    <2>2. \A t \in R : \A x \in t.at .. End(t) - 1 :
            x \in s.at .. End(s) - 1 /\ x \notin g.at .. End(g) - 1
        BY <1>1, <1>2, <1>3, <1>4 DEF End, Span
    <2>3. \A x \in g.at .. End(g) - 1 : x \in s.at .. End(s) - 1
        BY <1>1, <1>2, <1>3, <1>5 DEF End
    <2>4. \A f \in F \ {s} : \A x \in f.at .. End(f) - 1 : x \notin g.at .. End(g) - 1
        <3> SUFFICES ASSUME NEW f \in F \ {s}
                     PROVE  \A x \in f.at .. End(f) - 1 : x \notin g.at .. End(g) - 1
            OBVIOUS
        <3>1. Apart(f, s) /\ f \in Span
            BY DEF Sound, Disjoint, Typed
        <3>2. QED
            BY <1>1, <1>2, <1>3, <1>5, <3>1 DEF Apart, End, Span
    <2>5. \A x : x \in Cells(F2) <=> x \in Cells(F) /\ x \notin g.at .. End(g) - 1
        <3> SUFFICES ASSUME NEW x
                     PROVE  x \in Cells(F2) <=>
                                x \in Cells(F) /\ x \notin g.at .. End(g) - 1
            OBVIOUS
        <3>1. x \in Cells(F2) <=> \E t \in F2 : x \in t.at .. End(t) - 1
            BY CellsMember
        <3>2. x \in Cells(F) <=> \E t \in F : x \in t.at .. End(t) - 1
            BY CellsMember
        <3>3. QED
            BY <2>1, <2>2, <2>4, <3>1, <3>2
    <2>6. g.at .. End(g) - 1 \subseteq Cells(F)
        BY <2>3, CellsMember
    <2>7. QED
        BY <2>5, <2>6
<1>10. Cells(A) = Cells(F2 \cup L2)
    <2>1. Cells({g}) = g.at .. End(g) - 1
        BY CellsOne
    <2>2. Cells(F2 \cup L2) = Cells(F2) \cup (Cells(L) \cup Cells({g}))
        <3>1. Cells(L2) = Cells(L) \cup Cells({g})
            BY CellsUnion
        <3>2. Cells(F2 \cup L2) = Cells(F2) \cup Cells(L2)
            BY CellsUnion
        <3>3. QED
            BY <3>1, <3>2
    <2>3. Cells(F \cup L) = Cells(F) \cup Cells(L)
        BY CellsUnion
    <2>4. QED
        BY <1>9, <2>1, <2>2, <2>3 DEF Sound
<1>11. \A k \in F2 \cup L2 : Inside(k, A)
    <2>1. PICK r \in A : r.at <= s.at /\ End(s) <= End(r)
        BY DEF Sound, Inside
    <2>2. r \in Span
        BY DEF Sound, Typed
    <2>3. Inside(g, A)
        BY <1>1, <1>2, <1>3, <1>5, <2>1, <2>2 DEF Inside, End, Span
    <2>4. \A t \in R : Inside(t, A)
        BY <1>1, <1>2, <1>3, <1>4, <2>1, <2>2 DEF Inside, End, Span
    <2>5. QED
        BY <2>3, <2>4 DEF Sound
<1>12. IsFiniteSet(Cells(F2))
    <2>1. IsFiniteSet(Cells(F))
        BY DEF Sound
    <2>2. IsFiniteSet(Cells(F) \ (g.at .. End(g) - 1))
        BY <2>1, FS_Difference
    <2>3. QED
        BY <1>9, <2>2
<1>13. QED
    BY <1>6, <1>7, <1>8, <1>10, <1>11, <1>12 DEF Sound, g, R

-----------------------------------------------------------------------------
(* Releasing.                                                              *)

\* insert_into_free_list: the block a released grant becomes starts at the free
\* span before it, if there is one, and ends with the one after it.
LEMMA MergedShape ==
    ASSUME Sound(arena, free, live), NEW g \in live
    PROVE  \E lo, hi \in Nat :
              /\ Merged(g) = [at |-> lo, size |-> hi - lo]
              /\ lo <= g.at /\ End(g) <= hi
              /\ \/ Before(g) = {} /\ lo = g.at
                 \/ \E f \in free : Before(g) = {f} /\ lo = f.at /\ End(f) = g.at
              /\ \/ After(g) = {} /\ hi = End(g)
                 \/ \E f \in free : After(g) = {f} /\ hi = End(f) /\ f.at = End(g)
<1>1. g \in Grant /\ g.at \in Nat /\ g.size \in Nat \ {0} /\ End(g) \in Nat
    BY DEF Sound, Typed, Grant, End
<1>2. \A f \in free : f \in Span /\ f.at \in Nat /\ f.size \in Nat \ {0} /\ End(f) \in Nat
    BY DEF Sound, Typed, Span, End
<1>3. \A f, e \in Before(g) : f = e
    BY <1>1, <1>2 DEF Sound, Disjoint, Before, Touches, Apart, End
<1>4. \A f, e \in After(g) : f = e
    BY <1>1, <1>2 DEF Sound, Disjoint, After, Touches, Apart, End
<1> DEFINE lo == IF Before(g) = {} THEN g.at ELSE (CHOOSE f \in Before(g) : TRUE).at
           hi == IF After(g) = {} THEN End(g) ELSE End(CHOOSE f \in After(g) : TRUE)
<1>5. \/ Before(g) = {} /\ lo = g.at
      \/ \E f \in free : Before(g) = {f} /\ lo = f.at /\ End(f) = g.at
    <2>1. CASE Before(g) = {}
        BY <2>1
    <2>2. CASE Before(g) # {}
        <3>1. PICK f \in Before(g) : f = CHOOSE e \in Before(g) : TRUE
            BY <2>2
        <3>2. f \in free /\ End(f) = g.at
            BY DEF Before, Touches
        <3>3. Before(g) = {f} /\ lo = f.at
            BY <1>3, <2>2, <3>1
        <3>4. QED
            BY <3>2, <3>3
    <2>3. QED
        BY <2>1, <2>2
<1>6. \/ After(g) = {} /\ hi = End(g)
      \/ \E f \in free : After(g) = {f} /\ hi = End(f) /\ f.at = End(g)
    <2>1. CASE After(g) = {}
        BY <2>1
    <2>2. CASE After(g) # {}
        <3>1. PICK f \in After(g) : f = CHOOSE e \in After(g) : TRUE
            BY <2>2
        <3>2. f \in free /\ f.at = End(g)
            BY DEF After, Touches
        <3>3. After(g) = {f} /\ hi = End(f)
            BY <1>4, <2>2, <3>1
        <3>4. QED
            BY <3>2, <3>3
    <2>3. QED
        BY <2>1, <2>2
<1>7. Merged(g) = [at |-> lo, size |-> hi - lo]
    BY DEF Merged
<1> HIDE DEF lo, hi
<1>8. lo \in Nat /\ hi \in Nat /\ lo <= g.at /\ End(g) <= hi
    BY <1>1, <1>2, <1>5, <1>6 DEF End
<1>9. QED
    BY <1>5, <1>6, <1>7, <1>8

\* Heap4::free keeps the spans sound: the joined block overlaps nothing, lies
\* in one region and has no free neighbour left.
LEMMA ReleaseSound ==
    ASSUME Sound(arena, free, live), NEW g \in live
    PROVE  LET F2 == (free \ (Before(g) \cup After(g))) \cup {Merged(g)}
           IN  /\ Sound(arena, F2, live \ {g})
               /\ Cells(F2) = Cells(free) \cup (g.at .. End(g) - 1)
               /\ Cells(free) \cap (g.at .. End(g) - 1) = {}
<1> DEFINE B == Before(g)
           C == After(g)
           m == Merged(g)
           Kept == free \ (B \cup C)
           F2 == Kept \cup {m}
           L2 == live \ {g}
<1>1. g \in Grant /\ g.at \in Nat /\ g.size \in Nat \ {0} /\ End(g) \in Nat
      /\ g.at < End(g)
    BY DEF Sound, Typed, Grant, End
<1>2. \A f \in free : /\ f \in Span /\ f.at \in Nat /\ f.size \in Nat \ {0}
                      /\ End(f) \in Nat /\ f.at < End(f)
                      /\ Apart(f, g)
    BY DEF Sound, Typed, Disjoint, Span, End
<1>3. PICK lo, hi \in Nat :
        /\ Merged(g) = [at |-> lo, size |-> hi - lo]
        /\ lo <= g.at /\ End(g) <= hi
        /\ \/ Before(g) = {} /\ lo = g.at
           \/ \E f \in free : Before(g) = {f} /\ lo = f.at /\ End(f) = g.at
        /\ \/ After(g) = {} /\ hi = End(g)
           \/ \E f \in free : After(g) = {f} /\ hi = End(f) /\ f.at = End(g)
    BY MergedShape
<1>4. m.at = lo /\ End(m) = hi /\ m \in Span /\ lo < hi
    BY <1>1, <1>3 DEF End, Span
\* B and C, the free spans joined, as their bounds say.
<1>5. \/ B = {} /\ lo = g.at
      \/ \E f \in free : B = {f} /\ lo = f.at /\ End(f) = g.at
    BY <1>3
<1>6. \/ C = {} /\ hi = End(g)
      \/ \E f \in free : C = {f} /\ hi = End(f) /\ f.at = End(g)
    BY <1>3
<1>7. \A f \in Kept : f \in free /\ End(f) # g.at /\ End(g) # f.at
    BY DEF Before, After, Touches
<1>8. \A b \in B : b \in free /\ End(b) = g.at
    BY DEF Before, Touches
<1>9. \A c \in C : c \in free /\ c.at = End(g)
    BY DEF After, Touches
<1> HIDE DEF B, C, m
\* A span that is apart from g and from the spans joined with it is apart from
\* the whole.
<1>10. ASSUME NEW t, t.at \in Nat, End(t) \in Nat, t.at < End(t),
              Apart(t, g) \/ Apart(g, t),
              \A b \in B \cup C : Apart(t, b) \/ Apart(b, t)
       PROVE  Apart(t, m) /\ Apart(m, t)
    <2>1. lo = g.at \/ \E f \in free : f \in B /\ lo = f.at /\ End(f) = g.at
        BY <1>5
    <2>2. hi = End(g) \/ \E f \in free : f \in C /\ hi = End(f) /\ f.at = End(g)
        BY <1>6
    <2>3. End(t) <= g.at => End(t) <= lo
        BY <1>1, <1>2, <1>10, <2>1 DEF Apart
    <2>4. End(g) <= t.at => hi <= t.at
        BY <1>1, <1>2, <1>10, <2>2 DEF Apart
    <2>5. QED
        BY <1>4, <1>10, <2>3, <2>4 DEF Apart
<1>11. Typed(arena, F2, L2)
    BY <1>4, <1>7 DEF Sound, Typed
<1>12. Disjoint(F2, L2)
    <2>1. \A f \in Kept : Apart(f, m) /\ Apart(m, f)
        <3> SUFFICES ASSUME NEW f \in Kept PROVE Apart(f, m) /\ Apart(m, f)
            OBVIOUS
        <3>1. \A b \in B \cup C : Apart(f, b)
            BY <1>8, <1>9 DEF Sound, Disjoint
        <3>2. QED
            BY <1>2, <1>7, <1>10, <3>1
    <2>2. \A h \in L2 : Apart(m, h)
        <3> SUFFICES ASSUME NEW h \in L2 PROVE Apart(m, h)
            OBVIOUS
        <3>1. h.at \in Nat /\ End(h) \in Nat /\ h.at < End(h)
            BY DEF Sound, Typed, Grant, End
        <3>2. Apart(g, h)
            BY DEF Sound, Disjoint
        <3>3. \A b \in B \cup C : Apart(b, h)
            BY <1>8, <1>9 DEF Sound, Disjoint
        <3>4. QED
            BY <1>10, <3>1, <3>2, <3>3
    <2>3. QED
        BY <1>7, <2>1, <2>2 DEF Sound, Disjoint
<1>13. Separate(F2)
    <2>1. \A f \in Kept : ~ Touches(f, m) /\ ~ Touches(m, f)
        <3> SUFFICES ASSUME NEW f \in Kept PROVE ~ Touches(f, m) /\ ~ Touches(m, f)
            OBVIOUS
        <3>1. \A e \in free : ~ Touches(f, e) /\ ~ Touches(e, f)
            BY DEF Sound, Separate
        <3>2. End(f) # lo
            BY <1>5, <1>7, <3>1 DEF Touches
        <3>3. hi # f.at
            BY <1>6, <1>7, <3>1 DEF Touches
        <3>4. QED
            BY <1>4, <3>2, <3>3 DEF Touches
    <2>2. ~ Touches(m, m)
        BY <1>4 DEF Touches
    <2>3. QED
        BY <1>7, <2>1, <2>2 DEF Sound, Separate
<1>14. Cells(F2) = Cells(free) \cup (g.at .. End(g) - 1)
       /\ Cells(free) \cap (g.at .. End(g) - 1) = {}
    <2>1. \A x \in lo .. hi - 1 :
            \/ x \in g.at .. End(g) - 1
            \/ \E f \in B \cup C : x \in f.at .. End(f) - 1
        <3> SUFFICES ASSUME NEW x \in lo .. hi - 1,
                            x \notin g.at .. End(g) - 1
                     PROVE  \E f \in B \cup C : x \in f.at .. End(f) - 1
            OBVIOUS
        <3>1. CASE x < g.at
            BY <1>1, <1>2, <1>5, <3>1
        <3>2. CASE End(g) <= x
            BY <1>1, <1>2, <1>6, <3>2
        <3>3. QED
            BY <1>1, <3>1, <3>2
    <2>2. \A f \in B \cup C : \A x \in f.at .. End(f) - 1 : x \in lo .. hi - 1
        BY <1>1, <1>2, <1>3, <1>5, <1>6
    <2>3. \A x \in g.at .. End(g) - 1 : x \in lo .. hi - 1
        BY <1>1, <1>3
    <2>4. ASSUME NEW x
          PROVE  x \in Cells(F2) <=> x \in Cells(free) \/ x \in g.at .. End(g) - 1
        <3>1. x \in Cells(F2) <=> \E f \in F2 : x \in f.at .. End(f) - 1
            BY CellsMember
        <3>2. x \in Cells(free) <=> \E f \in free : x \in f.at .. End(f) - 1
            BY CellsMember
        <3>3. x \in m.at .. End(m) - 1 <=> x \in lo .. hi - 1
            BY <1>4
        <3>4. (\E f \in F2 : x \in f.at .. End(f) - 1) <=>
                (\E f \in Kept : x \in f.at .. End(f) - 1) \/ x \in lo .. hi - 1
            BY <3>3
        <3>5. x \in lo .. hi - 1 <=>
                \/ x \in g.at .. End(g) - 1
                \/ \E f \in B \cup C : x \in f.at .. End(f) - 1
            BY <2>1, <2>2, <2>3
        <3>6. (\E f \in free : x \in f.at .. End(f) - 1) <=>
                \/ \E f \in Kept : x \in f.at .. End(f) - 1
                \/ \E f \in B \cup C : x \in f.at .. End(f) - 1
            BY <1>8, <1>9
        <3>7. QED
            BY <3>1, <3>2, <3>4, <3>5, <3>6
    <2>5. \A f \in free : \A x \in f.at .. End(f) - 1 : x \notin g.at .. End(g) - 1
        BY <1>1, <1>2 DEF Apart
    <2>6. Cells(free) \cap (g.at .. End(g) - 1) = {}
        BY <2>5, CellsMember
    <2>7. QED
        BY <2>4, <2>6
<1>15. Cells(arena) = Cells(F2 \cup L2)
    <2>1. Cells({g}) = g.at .. End(g) - 1
        BY CellsOne
    <2>2. live = L2 \cup {g}
        OBVIOUS
    <2>3. Cells(live) = Cells(L2) \cup Cells({g})
        BY <2>2, CellsUnion
    <2>4. Cells(F2 \cup L2) = Cells(F2) \cup Cells(L2)
        BY CellsUnion
    <2>5. Cells(free \cup live) = Cells(free) \cup Cells(live)
        BY CellsUnion
    <2>6. QED
        BY <1>14, <2>1, <2>3, <2>4, <2>5 DEF Sound
<1>16. \A s \in F2 \cup L2 : Inside(s, arena)
    <2>1. PICK r \in arena : r.at <= g.at /\ End(g) <= End(r)
        BY DEF Sound, Inside
    <2>2. \A q \in arena : q.at \in Nat /\ End(q) \in Nat /\ q.at < End(q)
        BY DEF Sound, Typed, Span, End
    <2>3. r.at <= lo
        <3>1. CASE lo = g.at
            BY <2>1, <3>1
        <3>2. ASSUME NEW f \in free, lo = f.at, End(f) = g.at PROVE r.at <= lo
            <4>1. PICK q \in arena : q.at <= f.at /\ End(f) <= End(q)
                BY DEF Sound, Inside
            <4>2. q = r
                <5>1. q # r => Apart(q, r) /\ ~ Touches(q, r)
                    BY DEF Sound, RegionsApart
                <5>2. QED
                    BY <1>1, <1>2, <2>1, <2>2, <3>2, <4>1, <5>1 DEF Apart, Touches
            <4>3. QED
                BY <3>2, <4>1, <4>2
        <3>3. QED
            BY <1>5, <3>1, <3>2
    <2>4. hi <= End(r)
        <3>1. CASE hi = End(g)
            BY <2>1, <3>1
        <3>2. ASSUME NEW f \in free, hi = End(f), f.at = End(g) PROVE hi <= End(r)
            <4>1. PICK q \in arena : q.at <= f.at /\ End(f) <= End(q)
                BY DEF Sound, Inside
            <4>2. q = r
                <5>1. q # r => Apart(q, r) /\ ~ Touches(r, q)
                    BY DEF Sound, RegionsApart
                <5>2. QED
                    BY <1>1, <1>2, <2>1, <2>2, <3>2, <4>1, <5>1 DEF Apart, Touches
            <4>3. QED
                BY <3>2, <4>1, <4>2
        <3>3. QED
            BY <1>6, <3>1, <3>2
    <2>5. Inside(m, arena)
        BY <1>4, <2>3, <2>4 DEF Inside
    <2>6. QED
        BY <1>7, <2>5 DEF Sound
<1>17. IsFiniteSet(Cells(F2))
    <2>1. IsFiniteSet(Cells(free)) /\ IsFiniteSet(g.at .. End(g) - 1)
        BY SMTT(30), <1>1, FS_Interval DEF Sound
    <2>2. IsFiniteSet(Cells(free) \cup (g.at .. End(g) - 1))
        BY <2>1, FS_Union
    <2>3. QED
        BY <1>14, <2>2
<1>18. RegionsApart(arena)
    BY DEF Sound
<1>19. QED
    BY <1>11, <1>12, <1>13, <1>14, <1>15, <1>16, <1>17, <1>18 DEF Sound, B, C, m

-----------------------------------------------------------------------------
(* The invariant.                                                          *)

\* A layout on its own is a sound heap with nothing granted.
LEMMA LayoutSound ==
    ASSUME NEW A, IsLayout(A)
    PROVE  Sound(A, A, {}) /\ Cardinality(Cells(A)) \in Nat
<1>1. A \subseteq Span /\ IsFiniteSet(A)
    BY DEF IsLayout
<1>2. IsFiniteSet(Cells(A))
    BY <1>1, CellsFinite
<1>3. Separate(A)
    BY <1>1 DEF IsLayout, Separate, Touches, End, Span
<1>4. \A s \in A : Inside(s, A)
    BY <1>1 DEF Inside, Span, End
<1>5. RegionsApart(A) /\ Disjoint(A, {}) /\ Typed(A, A, {})
    BY <1>1 DEF IsLayout, RegionsApart, Disjoint, Typed
<1>6. Cells(A) = Cells(A \cup {})
    BY CellsMember
<1>7. QED
    BY <1>2, <1>3, <1>4, <1>5, <1>6, FS_CardinalityType DEF Sound

\* A heap that is not laid out holds no block.
LEMMA NothingBeforeLayout ==
    ASSUME FitInv, arena = {}
    PROVE  free = {} /\ live = {}
BY DEF FitInv, Sound, Inside

LEMMA InitFit == Init => FitInv
<1> SUFFICES ASSUME Init PROVE FitInv
    OBVIOUS
<1>1. IsLayout({})
    BY FS_EmptySet DEF IsLayout
<1>2. Sound({}, {}, {})
    BY <1>1, LayoutSound
<1>3. \A x : x \notin Cells({})
    BY CellsMember
<1>4. Cells({}) = {}
    BY <1>3
<1>5. Cardinality(Cells({})) = 0
    BY <1>4, FS_EmptySet
<1>6. QED
    BY <1>2, <1>5 DEF Init, FitInv, Counted

LEMMA LayOutFit ==
    ASSUME FitInv, NEW L \in Layouts \cup {WholeArena}, LayOut(L)
    PROVE  FitInv'
<1>1. live = {} /\ live' = {} /\ arena' = L /\ free' = L /\ granted' = granted
    BY NothingBeforeLayout DEF LayOut
<1>2. Sound(L, L, {}) /\ Cardinality(Cells(L)) \in Nat
    BY LayoutsAssumption, LayoutSound
<1>3. room' = Cardinality(Cells(L)) /\ low' = room'
    BY DEF LayOut
<1>4. Counted(L, {}, granted, room', low')
    BY <1>2, <1>3 DEF FitInv, Counted
<1>5. QED
    BY <1>1, <1>2, <1>4 DEF FitInv

\* Heap4::alloc keeps the books: what it takes from free_bytes is what leaves
\* the free spans, and no grant has had this number before.
LEMMA GrantFit ==
    ASSUME NEW A, NEW F, NEW r, NEW l, NEW need \in Sizes,
           Sound(A, F, live), Counted(F, live, granted, r, l),
           GrantFrom(F, A, r, l, need)
    PROVE  FitInv'
<1>1. PICK s \in F :
        /\ s.size >= need
        /\ arena' = A
        /\ free' = (F \ {s}) \cup Remainder(s, need)
        /\ live' = live \cup
                {[at |-> s.at, size |-> Taken(s, need), need |-> need, id |-> granted + 1]}
        /\ granted' = granted + 1
        /\ room' = r - Taken(s, need)
        /\ low' = IF room' < l THEN room' ELSE l
    BY DEF GrantFrom, FirstFitting, NextId
<1> DEFINE g == [at |-> s.at, size |-> Taken(s, need), need |-> need, id |-> granted + 1]
           F2 == (F \ {s}) \cup Remainder(s, need)
           taken == s.at .. s.at + Taken(s, need) - 1
<1>2. need \in Nat \ {0} /\ granted \in Nat /\ \A h \in live : h.id <= granted
    BY SizesAssumption DEF Counted
<1>3. s \in Span /\ s.at \in Nat /\ Taken(s, need) \in Nat \ {0}
    <2>1. s \in Span /\ s.at \in Nat
        BY DEF Sound, Typed, Span
    <2>2. QED
        BY <1>1, <1>2, <2>1, SplitCells
<1>4. Sound(A, F2, live \cup {g})
    BY <1>1, <1>2, GrantSound
<1>5. Sound(arena', free', live')
    BY <1>1, <1>4
<1>6. Cells(F) = Cells(F2) \cup taken /\ Cells(F2) \cap taken = {}
    <2>1. Cells({g}) = taken
        <3>1. g.at = s.at /\ End(g) = s.at + Taken(s, need)
            BY DEF End
        <3>2. Cells({g}) = g.at .. End(g) - 1
            BY CellsOne
        <3> HIDE DEF g
        <3>3. g.at .. End(g) - 1 = taken
            BY <1>3, <3>1
        <3> HIDE DEF taken
        <3>4. QED
            BY <3>2, <3>3
    <2>2. \A x \in Cells(F2) : x \notin taken
        <3> SUFFICES ASSUME NEW f \in F2, NEW x \in f.at .. End(f) - 1
                     PROVE  x \notin taken
            BY CellsMember
        <3>1. Apart(f, g) /\ f \in Span
            BY <1>4 DEF Sound, Disjoint, Typed
        <3>2. QED
            BY <1>3, <3>1 DEF Apart, End, Span
    <2>3. Cells(F \cup live) = Cells(F) \cup Cells(live)
        BY CellsUnion
    <2>4. Cells(F2 \cup (live \cup {g})) = Cells(F2) \cup (Cells(live) \cup taken)
        <3>1. Cells(live \cup {g}) = Cells(live) \cup Cells({g})
            BY CellsUnion
        <3>2. Cells(F2 \cup (live \cup {g})) = Cells(F2) \cup Cells(live \cup {g})
            BY CellsUnion
        <3>3. QED
            BY <2>1, <3>1, <3>2
    \* A free cell is never a granted one, so what the two sides share on top
    \* of the granted cells is equal.
    <2>5. Cells(F) \cap Cells(live) = {}
        <3> SUFFICES ASSUME NEW f \in F, NEW h \in live,
                            NEW x \in f.at .. End(f) - 1, x \in h.at .. End(h) - 1
                     PROVE  FALSE
            BY CellsMember
        <3>1. Apart(f, h) /\ f \in Span /\ h \in Grant
            BY DEF Sound, Disjoint, Typed
        <3>2. QED
            BY <3>1 DEF Apart, End, Span, Grant
    <2>6. (Cells(F2) \cup taken) \cap Cells(live) = {}
        <3>1. \A f \in F2, h \in live : Apart(f, h)
            BY <1>4 DEF Sound, Disjoint
        <3>2. \A h \in live : h.id # g.id
            BY <1>2 DEF Sound, Typed, Grant
        <3>3. \A h \in live : Apart(g, h)
            BY <1>4, <3>2 DEF Sound, Disjoint
        <3>4. \A f \in F2 : f \in Span
            BY <1>4 DEF Sound, Typed
        <3>5. \A h \in live : h \in Grant
            BY DEF Sound, Typed
        <3>6. ASSUME NEW f \in F2, NEW h \in live,
                     NEW x \in f.at .. End(f) - 1, x \in h.at .. End(h) - 1
              PROVE  FALSE
            BY <3>1, <3>4, <3>5, <3>6 DEF Apart, End, Span, Grant
        <3>7. ASSUME NEW h \in live, NEW x \in taken, x \in h.at .. End(h) - 1
              PROVE  FALSE
            BY <1>3, <3>3, <3>5, <3>7 DEF Apart, End, Grant
        <3>8. QED
            BY <3>6, <3>7, CellsMember
    <2>7. Cells(F) \cup Cells(live) = Cells(F2) \cup (Cells(live) \cup taken)
        BY <1>4, <2>3, <2>4 DEF Sound
    <2>8. Cells(F) = Cells(F2) \cup taken
        BY <2>5, <2>6, <2>7
    <2>9. QED
        BY <2>2, <2>8
<1>7. Cardinality(Cells(F)) = Cardinality(Cells(F2)) + Taken(s, need)
    <2>1. IsFiniteSet(Cells(F2))
        BY <1>4 DEF Sound
    <2>2. IsFiniteSet(taken) /\ Cardinality(taken) = Taken(s, need)
        BY <1>3, RangeSize
    <2>3. Cardinality(Cells(F2) \cup taken) = Cardinality(Cells(F2)) + Cardinality(taken)
        BY <1>6, <2>1, <2>2, DisjointSizes
    <2>4. QED
        BY <1>6, <2>2, <2>3
<1>8. Counted(free', live', granted', room', low')
    <2>1. Cardinality(Cells(F2)) \in Nat
        BY <1>4, FS_CardinalityType DEF Sound
    <2>2. room' = Cardinality(Cells(F2)) /\ room' \in Nat
        BY <1>1, <1>3, <1>7, <2>1 DEF Counted
    <2>3. low' \in Nat /\ low' <= room'
        BY <1>1, <2>2 DEF Counted
    <2>4. \A h \in live' : h.id <= granted'
        <3>1. \A h \in live : h.id \in Nat
            BY DEF Sound, Typed, Grant
        <3>2. QED
            BY <1>1, <1>2, <3>1
    <2>5. QED
        BY <1>1, <1>2, <2>2, <2>3, <2>4 DEF Counted
<1>9. QED
    BY <1>5, <1>8 DEF FitInv

LEMMA FreeFit ==
    ASSUME FitInv, NEW g \in live, Free(g)
    PROVE  FitInv'
<1> DEFINE F2 == (free \ (Before(g) \cup After(g))) \cup {Merged(g)}
           released == g.at .. End(g) - 1
<1>1. /\ free' = F2 /\ live' = live \ {g} /\ arena' = arena
      /\ granted' = granted /\ low' = low /\ room' = room + g.size
    BY DEF Free
<1>2. Sound(arena, free, live)
    BY DEF FitInv
<1>3. /\ Sound(arena, F2, live \ {g})
      /\ Cells(F2) = Cells(free) \cup released
      /\ Cells(free) \cap released = {}
    BY <1>2, ReleaseSound
<1>4. g.at \in Nat /\ g.size \in Nat \ {0} /\ End(g) = g.at + g.size
    BY <1>2 DEF Sound, Typed, Grant, End
<1>5. Cardinality(Cells(F2)) = Cardinality(Cells(free)) + g.size
      /\ Cardinality(Cells(free)) \in Nat
    <2>1. IsFiniteSet(Cells(free))
        BY <1>2 DEF Sound
    <2>2. released = g.at .. g.at + g.size - 1
        BY <1>4
    <2>3. IsFiniteSet(released) /\ Cardinality(released) = g.size
        BY <1>4, <2>2, RangeSize
    <2>4. Cardinality(Cells(free)) \in Nat
        BY <2>1, FS_CardinalityType
    <2>5. Cardinality(Cells(free) \cup released)
            = Cardinality(Cells(free)) + Cardinality(released)
        BY <1>3, <2>1, <2>3, DisjointSizes
    <2>6. QED
        BY <1>3, <2>3, <2>4, <2>5
<1>6. Counted(F2, live \ {g}, granted, room + g.size, low)
    BY <1>4, <1>5 DEF FitInv, Counted
<1>7. QED
    BY <1>1, <1>3, <1>6 DEF FitInv

LEMMA StepFit == FitInv /\ [Next]_vars => FitInv'
<1> SUFFICES ASSUME FitInv, [Next]_vars PROVE FitInv'
    OBVIOUS
<1>1. CASE UNCHANGED vars
    BY <1>1 DEF vars, FitInv
<1>2. ASSUME NEW L \in Layouts \cup {WholeArena}, LayOut(L) PROVE FitInv'
    BY <1>2, LayOutFit
<1>3. ASSUME NEW need \in Sizes, Alloc(need) PROVE FitInv'
    BY <1>3, GrantFit DEF Alloc, FitInv
<1>4. ASSUME NEW need \in Sizes, FirstAlloc(need) PROVE FitInv'
    <2> DEFINE whole == Cardinality(Cells(WholeArena))
    <2>1. live = {}
        BY <1>4, NothingBeforeLayout DEF FirstAlloc
    <2>2. Sound(WholeArena, WholeArena, live) /\ whole \in Nat
        BY <2>1, LayoutsAssumption, LayoutSound
    <2>3. Counted(WholeArena, live, granted, whole, whole)
        BY <2>1, <2>2 DEF FitInv, Counted
    <2>4. GrantFrom(WholeArena, WholeArena, whole, whole, need)
        BY <1>4 DEF FirstAlloc
    <2>5. QED
        BY <2>2, <2>3, <2>4, GrantFit
<1>5. ASSUME NEW g \in live, Free(g) PROVE FitInv'
    BY <1>5, FreeFit
<1>6. QED
    BY <1>1, <1>2, <1>3, <1>4, <1>5 DEF Next

\* The invariant holds in every behaviour of FirstFit.
THEOREM FitIsInvariant == Spec => []FitInv
<1>1. FitInv /\ [Next]_vars => FitInv'
    BY StepFit
<1>2. QED
    BY InitFit, <1>1, PTL DEF Spec

-----------------------------------------------------------------------------
(* What the runs check, for every instance.                                *)

LEMMA InvImplies ==
    FitInv => /\ TypeOK /\ NoOverlap /\ Tiling /\ Coalesced
              /\ RoomIsFree /\ InOneRegion
<1> SUFFICES ASSUME FitInv
             PROVE  /\ TypeOK /\ NoOverlap /\ Tiling /\ Coalesced
                    /\ RoomIsFree /\ InOneRegion
    OBVIOUS
<1>1. Sound(arena, free, live) /\ Counted(free, live, granted, room, low)
    BY DEF FitInv
<1>2. room \in Nat
    BY <1>1, FS_CardinalityType DEF Sound, Counted
<1>3. TypeOK
    BY <1>1, <1>2 DEF Sound, Typed, Counted, TypeOK
<1>4. NoOverlap /\ Tiling /\ Coalesced
    BY <1>1 DEF Sound, Disjoint, Separate, NoOverlap, Tiling, Coalesced
<1>5. RoomIsFree
    BY <1>1 DEF Counted, RoomIsFree
<1>6. InOneRegion
    BY <1>1 DEF Sound, Inside, InOneRegion
<1>7. QED
    BY <1>3, <1>4, <1>5, <1>6

\* Every span is a non-empty range of bytes and the counters are naturals.
THEOREM TypeCorrect == Spec => []TypeOK
<1>1. FitInv => TypeOK
    BY InvImplies
<1>2. QED
    BY FitIsInvariant, <1>1, PTL

\* No byte belongs to two blocks, whatever is allocated and freed.
THEOREM BlocksDisjoint == Spec => []NoOverlap
<1>1. FitInv => NoOverlap
    BY InvImplies
<1>2. QED
    BY FitIsInvariant, <1>1, PTL

\* Splitting and coalescing lose no byte: the blocks cover the regions exactly.
THEOREM NothingLost == Spec => []Tiling
<1>1. FitInv => Tiling
    BY InvImplies
<1>2. QED
    BY FitIsInvariant, <1>1, PTL

\* Coalescing, also when it absorbed an end marker, never makes a block that
\* spans two regions: each block lies in one of them.
THEOREM BlocksStayInRegions == Spec => []InOneRegion
<1>1. FitInv => InOneRegion
    BY InvImplies
<1>2. QED
    BY FitIsInvariant, <1>1, PTL

\* Free neighbours are always joined.
THEOREM AlwaysCoalesced == Spec => []Coalesced
<1>1. FitInv => Coalesced
    BY InvImplies
<1>2. QED
    BY FitIsInvariant, <1>1, PTL

\* free_bytes is the number of free bytes and minimum_ever_free is never above
\* it.
THEOREM BooksBalance == Spec => []RoomIsFree
<1>1. FitInv => RoomIsFree
    BY InvImplies
<1>2. QED
    BY FitIsInvariant, <1>1, PTL

\* minimum_ever_free never rises once the heap is laid out.
THEOREM LowIsMonotonic == Spec => LowNeverRises
<1>1. FitInv /\ FitInv' /\ [Next]_vars => [arena # {} => low' <= low]_vars
    <2> SUFFICES ASSUME FitInv, FitInv', Next, arena # {} PROVE low' <= low
        BY DEF vars
    <2>1. low \in Nat /\ low' \in Nat /\ room' \in Nat
        <3>1. /\ low \in Nat /\ low' \in Nat
              /\ room' = Cardinality(Cells(free')) /\ IsFiniteSet(Cells(free'))
            BY DEF FitInv, Sound, Counted
        <3>2. QED
            BY <3>1, FS_CardinalityType
    <2>2. CASE \E L \in Layouts \cup {WholeArena} : LayOut(L)
        BY <2>2 DEF LayOut
    <2>3. CASE \E need \in Sizes : Alloc(need) \/ FirstAlloc(need)
        <3>1. PICK need \in Sizes : Alloc(need)
            BY <2>3 DEF FirstAlloc
        <3>2. low' = IF room' < low THEN room' ELSE low
            BY <3>1 DEF Alloc, GrantFrom
        <3>3. QED
            BY <2>1, <3>2
    <2>4. CASE \E g \in live : Free(g)
        BY <2>1, <2>4 DEF Free
    <2>5. QED
        BY <2>2, <2>3, <2>4 DEF Next
<1>2. QED
    BY FitIsInvariant, <1>1, PTL DEF Spec, LowNeverRises
=============================================================================
