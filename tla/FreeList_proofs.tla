--------------------------- MODULE FreeList_proofs ---------------------------
(***************************************************************************)
(* Proofs about FreeList, for every set of region tables, every set of     *)
(* request sizes and every minimum block size.                             *)
(***************************************************************************)
EXTENDS FreeList, SequenceTheorems, FiniteSetTheorems, TLAPS

Nodes(L) == {L[i] : i \in 1..Len(L)}
Spans(L) == {n \in Nodes(L) : n.size > 0}

Rises(L) ==
    \A i, j \in 1..Len(L) : i < j => L[i].at < L[j].at /\ End(L[i]) <= L[j].at
StaysBelow(L, e) == \A i \in 1..Len(L) : End(L[i]) <= e /\ L[i].at < e
Clear(n, b) == (n.at < b.at /\ End(n) <= b.at) \/ End(b) <= n.at
ClearOf(L, B) == \A i \in 1..Len(L), b \in B : Clear(L[i], b)

\* Granted blocks are apart and below pxEnd.
BlocksApart ==
    /\ \A g, h \in Blocks : g # h => End(g) <= h.at \/ End(h) <= g.at
    /\ \A g \in Blocks : End(g) <= end
    /\ freeing \notin live

\* What the walk of alloc passed is too small, what the walk of free passed
\* lies before its block.
WalkSoFar ==
    /\ wanted > 0 =>
        /\ freeing = Nobody
        /\ arena # {}
        /\ granted < MaxGrants
        /\ cursor >= 1
        /\ \A i \in 1..Len(list) : i < cursor => list[i].size < wanted
    /\ freeing # Nobody =>
        /\ wanted = 0
        /\ cursor >= 1
        /\ \A i \in 1..Len(list) : i < cursor => list[i].at < freeing.at

\* Nothing is laid out before a call lays it out.
Untouched == arena = {} => list = <<>> /\ live = {} /\ freeing = Nobody

ListInv == TypeOK /\ ListOrdered /\ BlocksApart /\ WalkSoFar /\ Untouched

-----------------------------------------------------------------------------
(* Lists.                                                                  *)

LEMMA FunctionIsList ==
    ASSUME NEW S, NEW n \in Nat, NEW f \in [1..n -> S]
    PROVE  f \in Seq(S) /\ Len(f) = n
<1>1. f \in Seq(S)
    BY SeqDef
<1>2. Len(f) \in Nat /\ DOMAIN f = 1..Len(f)
    BY <1>1, LenProperties
<1>3. 1..Len(f) = 1..n
    BY <1>2
<1>4. QED
    BY <1>1, <1>2, <1>3

\* A node or a block has whole numbers.
LEMMA Numbers ==
    /\ \A n \in Node : n.at \in Nat /\ n.size \in Nat /\ End(n) = n.at + n.size /\ End(n) \in Nat
    /\ \A s \in Span : s.at \in Nat /\ s.size \in Nat \ {0} /\ s \in Node
    /\ \A g \in Grant : /\ g.at \in Nat /\ g.size \in Nat \ {0}
                        /\ End(g) = g.at + g.size /\ End(g) \in Nat /\ g # Nobody
BY DEF Node, Span, Grant, End, Nobody

\* The sequence after a splice.
LEMMA SplicedList ==
    ASSUME list \in Seq(Node), NEW lo \in 1..Len(list) + 1, NEW hi \in Int,
           lo - 1 <= hi, hi <= Len(list), NEW node \in Node
    PROVE  /\ Spliced(lo, hi, node) \in Seq(Node)
           /\ Len(Spliced(lo, hi, node)) = Len(list) - (hi - lo)
           /\ \A i \in 1..Len(list) - (hi - lo) :
                Spliced(lo, hi, node)[i] = IF i < lo THEN list[i]
                                           ELSE IF i = lo THEN node
                                           ELSE list[i + (hi - lo)]
<1> DEFINE n == Len(list) - (hi - lo)
           f == Spliced(lo, hi, node)
<1>1. Len(list) \in Nat /\ \A i \in 1..Len(list) : list[i] \in Node
    BY LenProperties, ElementOfSeq
<1>2. n \in Nat
    BY <1>1
<1>3. f = [i \in 1..n |-> IF i < lo THEN list[i] ELSE IF i = lo THEN node
                          ELSE list[i + (hi - lo)]]
    BY DEF Spliced
<1>4. \A i \in 1..n : f[i] = IF i < lo THEN list[i] ELSE IF i = lo THEN node
                             ELSE list[i + (hi - lo)]
    BY <1>3
<1>5. \A i \in 1..n : f[i] \in Node
    BY <1>1, <1>4
<1>6. f \in [1..n -> Node]
    BY <1>3, <1>5
<1> HIDE DEF f
<1>7. QED
    BY ZenonT(30), <1>2, <1>4, <1>6, FunctionIsList DEF f

LEMMA UnlinkedList ==
    ASSUME list \in Seq(Node), NEW k \in 1..Len(list)
    PROVE  /\ Unlinked(k) \in Seq(Node)
           /\ Len(Unlinked(k)) = Len(list) - 1
           /\ \A i \in 1..Len(list) - 1 :
                Unlinked(k)[i] = IF i < k THEN list[i] ELSE list[i + 1]
<1> DEFINE n == Len(list) - 1
           f == Unlinked(k)
<1>1. Len(list) \in Nat /\ \A i \in 1..Len(list) : list[i] \in Node
    BY LenProperties, ElementOfSeq
<1>2. n \in Nat
    BY <1>1
<1>3. f = [i \in 1..n |-> IF i < k THEN list[i] ELSE list[i + 1]]
    BY DEF Unlinked
<1>4. \A i \in 1..n : f[i] = IF i < k THEN list[i] ELSE list[i + 1]
    BY <1>3
<1>5. \A i \in 1..n : f[i] \in Node
    BY <1>1, <1>4
<1>6. f \in [1..n -> Node]
    BY <1>3, <1>5
<1> HIDE DEF f
<1>7. QED
    BY <1>2, <1>4, <1>6, FunctionIsList DEF f

\* Which nodes a splice leaves.
LEMMA SplicedNodes ==
    ASSUME list \in Seq(Node), NEW lo \in 1..Len(list) + 1, NEW hi \in Int,
           lo - 1 <= hi, hi <= Len(list), NEW node \in Node
    PROVE  \A n : n \in Nodes(Spliced(lo, hi, node)) <=>
                    \/ n = node
                    \/ \E i \in 1..Len(list) : (i < lo \/ i > hi) /\ n = list[i]
<1> DEFINE f == Spliced(lo, hi, node)
           m == Len(list) - (hi - lo)
<1>1. /\ Len(f) = m
      /\ \A i \in 1..m : f[i] = IF i < lo THEN list[i] ELSE IF i = lo THEN node
                                ELSE list[i + (hi - lo)]
    BY SplicedList
<1>2. Len(list) \in Nat
    BY LenProperties
<1> HIDE DEF f
<1>3. ASSUME NEW n, n \in Nodes(f)
      PROVE  n = node \/ \E i \in 1..Len(list) : (i < lo \/ i > hi) /\ n = list[i]
    <2>1. PICK i \in 1..m : n = f[i]
        BY <1>1, <1>3 DEF Nodes
    <2>2. CASE i < lo
        BY <1>1, <1>2, <2>1, <2>2
    <2>3. CASE i = lo
        BY <1>1, <2>1, <2>3
    <2>4. CASE i > lo
        <3>1. n = list[i + (hi - lo)]
            BY <1>1, <2>1, <2>4
        <3>2. i + (hi - lo) \in 1..Len(list) /\ i + (hi - lo) > hi
            BY <1>2, <2>1, <2>4
        <3>3. QED
            BY <3>1, <3>2
    <2>5. QED
        BY <2>2, <2>3, <2>4
<1>4. node \in Nodes(f)
    <2>1. lo \in 1..m /\ f[lo] = node
        BY <1>1, <1>2
    <2>2. QED
        BY <1>1, <2>1 DEF Nodes
<1>5. ASSUME NEW i \in 1..Len(list), i < lo \/ i > hi
      PROVE  list[i] \in Nodes(f)
    <2>1. CASE i < lo
        <3>1. i \in 1..m /\ f[i] = list[i]
            BY <1>1, <1>2, <2>1
        <3>2. QED
            BY <1>1, <3>1 DEF Nodes
    <2>2. CASE i > hi /\ ~ (i < lo)
        <3>1. i - (hi - lo) \in 1..m /\ i - (hi - lo) > lo
            BY <1>2, <2>2
        <3>2. f[i - (hi - lo)] = list[(i - (hi - lo)) + (hi - lo)]
            BY <1>1, <3>1
        <3>3. (i - (hi - lo)) + (hi - lo) = i
            OBVIOUS
        <3>4. QED
            BY <1>1, <3>1, <3>2, <3>3 DEF Nodes
    <2>3. QED
        BY <1>5, <2>1, <2>2
<1>6. QED
    BY <1>3, <1>4, <1>5 DEF f

LEMMA UnlinkedNodes ==
    ASSUME list \in Seq(Node), NEW k \in 1..Len(list)
    PROVE  \A n : n \in Nodes(Unlinked(k)) <=>
                    \E i \in 1..Len(list) : i # k /\ n = list[i]
<1> DEFINE f == Unlinked(k)
           m == Len(list) - 1
<1>1. /\ Len(f) = m
      /\ \A i \in 1..m : f[i] = IF i < k THEN list[i] ELSE list[i + 1]
    BY UnlinkedList
<1>2. Len(list) \in Nat
    BY LenProperties
<1> HIDE DEF f
<1>3. ASSUME NEW n, n \in Nodes(f)
      PROVE  \E i \in 1..Len(list) : i # k /\ n = list[i]
    <2>1. PICK i \in 1..m : n = f[i]
        BY <1>1, <1>3 DEF Nodes
    <2>2. CASE i < k
        BY <1>1, <1>2, <2>1, <2>2
    <2>3. CASE i >= k
        <3>1. n = list[i + 1]
            BY <1>1, <2>1, <2>3
        <3>2. i + 1 \in 1..Len(list) /\ i + 1 # k
            BY <1>2, <2>1, <2>3
        <3>3. QED
            BY <3>1, <3>2
    <2>4. QED
        BY <2>2, <2>3
<1>4. ASSUME NEW i \in 1..Len(list), i # k
      PROVE  list[i] \in Nodes(f)
    <2>1. CASE i < k
        <3>1. i \in 1..m /\ f[i] = list[i]
            BY <1>1, <1>2, <2>1
        <3>2. QED
            BY <1>1, <3>1 DEF Nodes
    <2>2. CASE i > k
        <3>1. i - 1 \in 1..m /\ f[i - 1] = list[(i - 1) + 1]
            BY <1>1, <1>2, <2>2
        <3>2. (i - 1) + 1 = i
            OBVIOUS
        <3>3. QED
            BY <1>1, <3>1, <3>2 DEF Nodes
    <2>3. QED
        BY <1>4, <2>1, <2>2
<1>5. QED
    BY <1>3, <1>4 DEF f

\* A splice keeps the order when its node fits in its place.
LEMMA SplicedRises ==
    ASSUME list \in Seq(Node), NEW lo \in 1..Len(list) + 1, NEW hi \in Int,
           lo - 1 <= hi, hi <= Len(list), NEW node \in Node, Rises(list),
           \A i \in 1..Len(list) :
                i < lo => list[i].at < node.at /\ End(list[i]) <= node.at,
           \A i \in 1..Len(list) :
                i > hi => node.at < list[i].at /\ End(node) <= list[i].at
    PROVE  Rises(Spliced(lo, hi, node))
<1> DEFINE f == Spliced(lo, hi, node)
           m == Len(list) - (hi - lo)
<1>1. /\ Len(f) = m
      /\ \A i \in 1..m : f[i] = IF i < lo THEN list[i] ELSE IF i = lo THEN node
                                ELSE list[i + (hi - lo)]
    BY SplicedList
<1>2. Len(list) \in Nat
    BY LenProperties
<1> HIDE DEF f
<1>3. SUFFICES ASSUME NEW i \in 1..m, NEW j \in 1..m, i < j
               PROVE  f[i].at < f[j].at /\ End(f[i]) <= f[j].at
    BY <1>1 DEF Rises, f
<1>4. CASE j < lo
    <2>1. i \in 1..Len(list) /\ j \in 1..Len(list) /\ i < lo
        BY <1>2, <1>3, <1>4
    <2>2. f[i] = list[i] /\ f[j] = list[j]
        BY <1>1, <1>4, <2>1
    <2>3. QED
        BY <1>3, <2>1, <2>2 DEF Rises
<1>5. CASE j = lo
    <2>1. f[j] = node /\ f[i] = list[i] /\ i \in 1..Len(list) /\ i < lo
        BY <1>1, <1>2, <1>3, <1>5
    <2>2. QED
        BY <2>1
<1>6. CASE j > lo
    <2> DEFINE k == j + (hi - lo)
    <2>1. f[j] = list[k] /\ k \in 1..Len(list) /\ k > hi
        BY <1>1, <1>2, <1>3, <1>6
    <2>2. CASE i < lo
        <3>1. f[i] = list[i]
            BY <1>1, <2>2
        <3>2. i \in 1..Len(list)
            BY <1>2, <2>2
        <3>3. i < k
            BY <1>2, <1>3, <1>6, <2>2
        <3>4. QED
            <4> HIDE DEF k
            <4> QED  BY <2>1, <3>1, <3>2, <3>3 DEF Rises
    <2>3. CASE i = lo
        <3>1. f[i] = node
            BY <1>1, <1>3, <2>3
        <3>2. QED
            BY <2>1, <3>1
    <2>4. CASE i > lo
        <3>1. f[i] = list[i + (hi - lo)] /\ i + (hi - lo) \in 1..Len(list) /\ i + (hi - lo) < k
            BY <1>1, <1>2, <1>3, <2>4
        <3>2. QED
            BY <2>1, <3>1 DEF Rises
    <2>5. QED
        BY <1>3, <2>2, <2>3, <2>4
<1>7. QED
    BY <1>3, <1>4, <1>5, <1>6

LEMMA UnlinkedRises ==
    ASSUME list \in Seq(Node), NEW k \in 1..Len(list), Rises(list)
    PROVE  Rises(Unlinked(k))
<1> DEFINE f == Unlinked(k)
           m == Len(list) - 1
<1>1. /\ Len(f) = m
      /\ \A i \in 1..m : f[i] = IF i < k THEN list[i] ELSE list[i + 1]
    BY UnlinkedList
<1>2. Len(list) \in Nat
    BY LenProperties
<1> HIDE DEF f
<1>3. SUFFICES ASSUME NEW i \in 1..m, NEW j \in 1..m, i < j
               PROVE  f[i].at < f[j].at /\ End(f[i]) <= f[j].at
    BY <1>1 DEF Rises, f
<1>4. CASE j < k
    <2>1. i \in 1..Len(list) /\ j \in 1..Len(list) /\ i < k
        BY <1>2, <1>3, <1>4
    <2>2. f[i] = list[i] /\ f[j] = list[j]
        BY <1>1, <1>4, <2>1
    <2>3. QED
        BY <1>3, <2>1, <2>2 DEF Rises
<1>5. CASE i < k /\ j >= k
    <2>1. i \in 1..Len(list) /\ j + 1 \in 1..Len(list) /\ i < j + 1
        BY <1>2, <1>3
    <2>2. f[i] = list[i] /\ f[j] = list[j + 1]
        BY <1>1, <1>2, <1>5
    <2>3. QED
        BY <2>1, <2>2 DEF Rises
<1>6. CASE i >= k
    <2>1. i + 1 \in 1..Len(list) /\ j + 1 \in 1..Len(list) /\ i + 1 < j + 1
        BY <1>2, <1>3
    <2>2. f[i] = list[i + 1] /\ f[j] = list[j + 1]
        BY <1>1, <1>2, <1>3, <1>6
    <2>3. QED
        BY <2>1, <2>2 DEF Rises
<1>7. QED
    BY <1>3, <1>4, <1>5, <1>6

\* What the list's nodes keep, whatever their order.
LEMMA NodeWise ==
    ASSUME NEW L \in Seq(Node)
    PROVE  /\ \A e : StaysBelow(L, e) <=> \A n \in Nodes(L) : End(n) <= e /\ n.at < e
           /\ \A B : ClearOf(L, B) <=> \A n \in Nodes(L), b \in B : Clear(n, b)
           /\ Nodes(L) \subseteq Node
           /\ Len(L) \in Nat
           /\ \A i \in 1..Len(L) : L[i] \in Node
<1>1. Len(L) \in Nat /\ \A i \in 1..Len(L) : L[i] \in Node
    BY LenProperties, ElementOfSeq
<1>2. QED
    BY <1>1 DEF StaysBelow, ClearOf, Nodes

LEMMA OrderedParts ==
    /\ ListOrdered <=> Rises(list) /\ StaysBelow(list, end) /\ ClearOf(list, Blocks)
    /\ ListOrdered' <=> Rises(list') /\ StaysBelow(list', end') /\ ClearOf(list', Blocks')
    /\ FreeSpans = Spans(list)
    /\ FreeSpans' = Spans(list')
BY DEF ListOrdered, Rises, StaysBelow, ClearOf, Clear, FreeSpans, Spans, Nodes

-----------------------------------------------------------------------------
(* Laying out.                                                             *)

\* Every region's block and its marker, in order: the blocks are the regions.
LEMMA LaidList ==
    ASSUME NEW table, IsTable(table)
    PROVE  /\ Laid(table) \in Seq(Node)
           /\ Rises(Laid(table))
           /\ StaysBelow(Laid(table), End(table[Len(table)]))
           /\ Spans(Laid(table)) = Regions(table)
           /\ End(table[Len(table)]) \in Nat
           /\ Regions(table) \subseteq Span
           /\ Regions(table) # {}
<1> DEFINE n == Len(table)
           m == 2 * n - 1
           f == Laid(table)
<1>1. n \in Nat \ {0} /\ \A k \in 1..n : table[k] \in Span
    BY EmptySeq, ElementOfSeq DEF IsTable
<1>2. f = [i \in 1..m |-> IF i % 2 = 1 THEN table[(i + 1) \div 2]
                          ELSE [at |-> End(table[i \div 2]), size |-> 0]]
    BY DEF Laid
<1>3. \A k \in 1..n : /\ 2 * k - 1 \in 1..m
                      /\ (2 * k - 1) % 2 = 1
                      /\ ((2 * k - 1) + 1) \div 2 = k
    BY <1>1
<1>4. \A k \in 1..n - 1 : 2 * k \in 1..m /\ (2 * k) % 2 = 0 /\ (2 * k) \div 2 = k
    BY <1>1
\* Every position is that of a block or of a marker.
<1>5. \A i \in 1..m : \/ \E k \in 1..n : i = 2 * k - 1
                      \/ \E k \in 1..n - 1 : i = 2 * k
    <2> SUFFICES ASSUME NEW i \in 1..m
                 PROVE  \/ \E k \in 1..n : i = 2 * k - 1
                        \/ \E k \in 1..n - 1 : i = 2 * k
        OBVIOUS
    <2>1. CASE i % 2 = 1
        <3>1. (i + 1) \div 2 \in 1..n /\ i = 2 * ((i + 1) \div 2) - 1
            BY <1>1, <2>1
        <3>2. QED
            BY <3>1
    <2>2. CASE i % 2 = 0
        <3>1. i \div 2 \in 1..n - 1 /\ i = 2 * (i \div 2)
            BY <1>1, <2>2
        <3>2. QED
            BY <3>1
    <2>3. i % 2 \in {0, 1}
        BY <1>1
    <2>4. QED
        BY <2>1, <2>2, <2>3
<1>6. \A k \in 1..n : f[2 * k - 1] = table[k]
    BY <1>2, <1>3
<1>7. \A k \in 1..n - 1 : f[2 * k] = [at |-> End(table[k]), size |-> 0]
    BY <1>2, <1>4
<1>8. \A k \in 1..n : /\ table[k] \in Node
                      /\ table[k].at \in Nat /\ table[k].size \in Nat \ {0}
                      /\ End(table[k]) = table[k].at + table[k].size
                      /\ table[k].at < End(table[k])
                      /\ End(table[k]) \in Nat
    <2> SUFFICES ASSUME NEW k \in 1..n
                 PROVE  /\ table[k] \in Node
                        /\ table[k].at \in Nat /\ table[k].size \in Nat \ {0}
                        /\ End(table[k]) = table[k].at + table[k].size
                        /\ table[k].at < End(table[k])
                        /\ End(table[k]) \in Nat
        OBVIOUS
    <2>1. /\ table[k] \in Node
          /\ table[k].at \in Nat /\ table[k].size \in Nat \ {0}
          /\ End(table[k]) = table[k].at + table[k].size
        BY <1>1, Numbers
    <2>2. QED
        BY <2>1
<1>9. \A j, k \in 1..n : j < k => End(table[j]) < table[k].at
    BY DEF IsTable
<1> HIDE DEF f
<1>10. \A i \in 1..m : f[i] \in Node
    <2>1. \A k \in 1..n - 1 : [at |-> End(table[k]), size |-> 0] \in Node
        BY <1>1, <1>8 DEF Node
    <2>2. QED
        BY <1>5, <1>6, <1>7, <1>8, <2>1
<1>11. f \in Seq(Node) /\ Len(f) = m
    <2>1. DOMAIN f = 1..m /\ f = [i \in 1..m |-> f[i]]
        BY <1>2
    <2>2. m \in Nat
        BY <1>1
    <2> HIDE DEF m
    <2>3. f \in [1..m -> Node]
        BY <1>10, <2>1
    <2>4. QED
        BY <2>2, <2>3, FunctionIsList
\* At a block's position and at a marker's.
<1>18. ASSUME NEW i, NEW k \in 1..n, i = 2 * k - 1
       PROVE  f[i] = table[k] /\ f[i].size # 0
    BY <1>6, <1>8, <1>18
<1>19. ASSUME NEW i, NEW k \in 1..n - 1, i = 2 * k
       PROVE  /\ f[i].at = End(table[k]) /\ f[i].size = 0
              /\ End(f[i]) = End(table[k])
              /\ k \in 1..n /\ k + 1 \in 1..n
    <2>1. f[i] = [at |-> End(table[k]), size |-> 0]
        BY <1>7, <1>19
    <2>2. k \in 1..n /\ k + 1 \in 1..n
        BY <1>1
    <2>3. QED
        BY <1>8, <2>1, <2>2 DEF End
<1>12. Rises(f)
    <2> SUFFICES ASSUME NEW i \in 1..m, NEW j \in 1..m, i < j
                 PROVE  f[i].at < f[j].at /\ End(f[i]) <= f[j].at
        BY <1>11 DEF Rises
    <2>1. ASSUME NEW k \in 1..n, i = 2 * k - 1, NEW l \in 1..n, j = 2 * l - 1
          PROVE  f[i].at < f[j].at /\ End(f[i]) <= f[j].at
        <3>1. k < l
            BY <1>1, <2>1
        <3>2. f[i] = table[k] /\ f[j] = table[l]
            BY <1>18, <2>1
        <3>3. End(table[k]) < table[l].at
            BY <1>9, <3>1
        <3>4. table[k].at < End(table[k]) /\ table[k].at \in Nat /\ table[l].at \in Nat
            BY <1>8
        <3>5. End(table[k]) \in Nat
            BY <1>8
        <3>6. QED
            BY <3>2, <3>3, <3>4, <3>5
    <2>2. ASSUME NEW k \in 1..n, i = 2 * k - 1, NEW l \in 1..n - 1, j = 2 * l
          PROVE  f[i].at < f[j].at /\ End(f[i]) <= f[j].at
        <3>1. k <= l /\ l \in 1..n
            BY <1>1, <2>2
        <3>2. End(table[k]) <= End(table[l])
            <4>1. CASE k = l
                BY <1>8, <4>1
            <4>2. CASE k < l
                <5>1. End(table[k]) < table[l].at
                    BY <1>9, <3>1, <4>2
                <5>2. QED
                    BY <1>8, <3>1, <5>1
            <4>3. QED
                BY <1>1, <3>1, <4>1, <4>2
        <3>3. f[j].at = End(table[l]) /\ f[i] = table[k]
            BY <1>18, <1>19, <2>2
        <3>4. table[k].at < End(table[k]) /\ table[k].at \in Nat
            BY <1>8
        <3>5. End(table[k]) \in Nat /\ End(table[l]) \in Nat
            BY <1>8, <3>1
        <3>6. QED
            BY SMTT(30), <3>2, <3>3, <3>4, <3>5
    <2>3. ASSUME NEW k \in 1..n - 1, i = 2 * k, NEW l \in 1..n, j = 2 * l - 1
          PROVE  f[i].at < f[j].at /\ End(f[i]) <= f[j].at
        <3>1. k < l /\ k \in 1..n
            BY <1>1, <2>3
        <3>2. f[i].at = End(table[k]) /\ End(f[i]) = End(table[k])
            BY <1>19, <2>3
        <3>3. f[j] = table[l]
            BY <1>18, <2>3
        <3>4. End(table[k]) < table[l].at
            BY <1>9, <3>1
        <3>5. QED
            BY SMTT(30), <1>8, <3>1, <3>2, <3>3, <3>4
    <2>4. ASSUME NEW k \in 1..n - 1, i = 2 * k, NEW l \in 1..n - 1, j = 2 * l
          PROVE  f[i].at < f[j].at /\ End(f[i]) <= f[j].at
        <3>1. k < l /\ k \in 1..n /\ l \in 1..n
            BY <1>1, <2>4
        <3>2. f[i].at = End(table[k]) /\ End(f[i]) = End(table[k])
            BY <1>19, <2>4
        <3>3. f[j].at = End(table[l])
            BY <1>19, <2>4
        <3>4. End(table[k]) < table[l].at
            BY <1>9, <3>1
        <3>5. table[l].at < End(table[l]) /\ table[l].at \in Nat
            BY <1>8, <3>1
        <3>6. End(table[k]) \in Nat /\ End(table[l]) \in Nat
            BY <1>8, <3>1
        <3>7. QED
            BY SMTT(30), <3>2, <3>3, <3>4, <3>5, <3>6
    <2>5. QED
        BY <1>5, <2>1, <2>2, <2>3, <2>4
<1>13. End(table[n]) \in Nat /\ \A k \in 1..n : End(table[k]) <= End(table[n])
    BY <1>1, <1>8, <1>9
<1>14. StaysBelow(f, End(table[n]))
    <2> SUFFICES ASSUME NEW i \in 1..m
                 PROVE  End(f[i]) <= End(table[n]) /\ f[i].at < End(table[n])
        BY <1>11 DEF StaysBelow
    <2>1. ASSUME NEW k \in 1..n, i = 2 * k - 1
          PROVE  End(f[i]) <= End(table[n]) /\ f[i].at < End(table[n])
        <3>1. f[i] = table[k]
            BY <1>18, <2>1
        <3>2. QED
            <4>1. table[k].at < End(table[k]) /\ table[k].at \in Nat /\ End(table[k]) \in Nat
                BY <1>8
            <4>2. End(table[k]) <= End(table[n])
                BY <1>13
            <4>3. QED
                BY <1>13, <3>1, <4>1, <4>2
    <2>2. ASSUME NEW k \in 1..n - 1, i = 2 * k
          PROVE  End(f[i]) <= End(table[n]) /\ f[i].at < End(table[n])
        <3>1. f[i].at = End(table[k]) /\ End(f[i]) = End(table[k])
            BY <1>19, <2>2
        <3>2. k \in 1..n /\ n \in 1..n /\ k < n
            BY <1>1, <2>2
        <3>3. End(table[k]) < table[n].at
            BY <1>9, <3>2
        <3>4. QED
            BY <1>8, <3>1, <3>2, <3>3
    <2>3. QED
        BY <1>5, <2>1, <2>2
<1>15. Spans(f) = Regions(table)
    <2>1. ASSUME NEW s, s \in Spans(f) PROVE s \in Regions(table)
        <3>1. PICK i \in 1..m : s = f[i] /\ f[i].size > 0
            BY <1>11, <2>1 DEF Spans, Nodes
        <3>2. ASSUME NEW k \in 1..n - 1, i = 2 * k PROVE FALSE
            <4>1. f[i].size = 0
                BY <1>19, <3>2
            <4>2. QED
                BY <3>1, <4>1
        <3>3. PICK k \in 1..n : i = 2 * k - 1
            BY <1>5, <3>2
        <3>4. QED
            BY <1>18, <3>1, <3>3 DEF Regions
    <2>2. ASSUME NEW k \in 1..n PROVE table[k] \in Spans(f)
        <3>1. 2 * k - 1 \in 1..Len(f) /\ f[2 * k - 1] = table[k]
            BY <1>3, <1>6, <1>11
        <3>2. table[k] \in Nodes(f)
            BY <3>1 DEF Nodes
        <3>3. QED
            BY <1>8, <3>2 DEF Spans
    <2>3. QED
        BY <2>1, <2>2 DEF Regions
<1>16. Regions(table) \subseteq Span /\ Regions(table) # {}
    BY <1>1 DEF Regions
<1>17. QED
    BY <1>11, <1>12, <1>13, <1>14, <1>15, <1>16 DEF f

LEMMA CellsFinite ==
    ASSUME NEW table, IsTable(table)
    PROVE  Cardinality(Cells(Regions(table))) \in Nat
<1> DEFINE n == Len(table)
           f == [k \in 1..n |-> table[k]]
           Ranges == {s.at .. End(s) - 1 : s \in Regions(table)}
           h == [s \in Regions(table) |-> s.at .. End(s) - 1]
<1>1. n \in Nat /\ \A k \in 1..n : table[k] \in Span
    BY EmptySeq, ElementOfSeq DEF IsTable
<1>2. IsFiniteSet(Regions(table))
    <2>1. IsFiniteSet(1..n)
        BY <1>1, FS_Interval
    <2>2. f \in Surjection(1..n, Regions(table))
        BY DEF Surjection, Regions
    <2>3. QED
        BY <2>1, <2>2, FS_Surjection
<1>3. IsFiniteSet(Ranges)
    <2>1. h \in Surjection(Regions(table), Ranges)
        BY DEF Surjection
    <2>2. QED
        BY <1>2, <2>1, FS_Surjection
<1>4. \A R \in Ranges : IsFiniteSet(R)
    <2>1. ASSUME NEW s \in Regions(table) PROVE IsFiniteSet(s.at .. End(s) - 1)
        <3>1. s \in Span
            BY <1>1 DEF Regions
        <3>2. s.at \in Int /\ End(s) - 1 \in Int
            BY <3>1 DEF Span, End
        <3>3. QED
            BY <3>2, FS_Interval
    <2>2. QED
        BY <2>1
<1>5. IsFiniteSet(Cells(Regions(table)))
    BY <1>3, <1>4, FS_UNION DEF Cells
<1>6. QED
    BY <1>5, FS_CardinalityType

\* A heap nobody touched, laid out.
LEMMA LaidOut ==
    ASSUME ListInv, Idle, arena = {}, NEW table, IsTable(table), Lay(table),
           live' = live, freeing' = freeing
    PROVE  /\ list' \in Seq(Node) /\ end' \in Nat /\ room' \in Nat /\ low' = room'
           /\ arena' \subseteq Span /\ arena' # {}
           /\ ListOrdered' /\ BlocksApart'
           /\ arena' = Regions(table)
           /\ FreeSpans' = arena'
           /\ room' = Cardinality(Cells(arena'))
<1>1. list' = Laid(table) /\ end' = End(table[Len(table)]) /\ arena' = Regions(table)
      /\ room' = Cardinality(Cells(Regions(table))) /\ low' = room'
    BY DEF Lay
<1>2. Blocks' = {}
    BY DEF ListInv, Untouched, Blocks
<1>3. list' \in Seq(Node) /\ Rises(list') /\ StaysBelow(list', end')
      /\ Spans(list') = arena' /\ end' \in Nat /\ arena' \subseteq Span /\ arena' # {}
    BY <1>1, LaidList
<1>4. ClearOf(list', Blocks')
    BY <1>2 DEF ClearOf
<1>5. ListOrdered' /\ FreeSpans' = arena'
    BY <1>3, <1>4, OrderedParts
<1>6. BlocksApart'
    BY <1>2 DEF BlocksApart, ListInv, Untouched
<1>7. room' \in Nat
    BY <1>1, CellsFinite
<1>8. QED
    BY <1>1, <1>3, <1>5, <1>6, <1>7

\* Blocks are whole numbers too.
LEMMA BlockNumbers ==
    ASSUME TypeOK
    PROVE  \A g \in Blocks : /\ g \in Grant
                             /\ g.at \in Nat /\ g.size \in Nat \ {0}
                             /\ End(g) = g.at + g.size /\ End(g) \in Nat
<1>1. Blocks \subseteq Grant
    BY DEF TypeOK, Blocks
<1>2. QED
    BY <1>1, Numbers

-----------------------------------------------------------------------------
(* Taking a block.                                                         *)

GrantMade == [at |-> list[cursor].at, size |-> Taken(list[cursor]),
              need |-> wanted, id |-> granted + 1]

\* The block the walk stopped on is the first fit, and the list without it, or
\* with what remains of it, is in order.
LEMMA TakeOutcome ==
    ASSUME ListInv, AllocTake
    PROVE  LET c == list[cursor]
           IN  /\ c \in FreeSpans /\ c.size >= wanted
               /\ \A t \in FreeSpans : t.size >= wanted => c.at <= t.at
               /\ list' \in Seq(Node)
               /\ ListOrdered'
               /\ Blocks' = Blocks \cup {GrantMade}
               /\ GrantMade \in Grant
               /\ FreeSpans' = (FreeSpans \ {c})
                                \cup (IF Splits(c) THEN {Remainder(c)} ELSE {})
               /\ \A g \in Blocks : End(g) <= GrantMade.at \/ End(GrantMade) <= g.at
               /\ End(GrantMade) <= end
<1> DEFINE c == list[cursor]
           g == GrantMade
<1>1. /\ list \in Seq(Node) /\ cursor \in 1..Len(list) /\ wanted \in Nat \ {0}
      /\ Len(list) \in Nat /\ granted \in Nat /\ end \in Nat
      /\ freeing = Nobody /\ freeing' = freeing /\ end' = end
      /\ c.size >= wanted
      /\ live' = live \cup {g}
      /\ list' = IF Splits(c) THEN Spliced(cursor, cursor, Remainder(c)) ELSE Unlinked(cursor)
    <2>1. list \in Seq(Node) /\ Len(list) \in Nat
        BY NodeWise DEF ListInv, TypeOK
    <2>2. wanted \in Nat \ {0}
        BY SizesAssumption DEF ListInv, TypeOK, AllocTake
    <2>3. freeing = Nobody /\ cursor >= 1 /\ cursor \in Int
        BY <2>1, <2>2 DEF ListInv, TypeOK, WalkSoFar
    <2>4. cursor \in 1..Len(list)
        BY <2>1, <2>3 DEF AllocTake
    <2>5. granted \in Nat /\ end \in Nat
        BY GrantsAssumption DEF ListInv, TypeOK
    <2>6. QED
        BY <2>1, <2>2, <2>3, <2>4, <2>5 DEF AllocTake, Fits, GrantMade
<1>2. /\ c.at \in Nat /\ c.size \in Nat \ {0} /\ End(c) = c.at + c.size /\ c \in Node
      /\ \A i \in 1..Len(list) : /\ list[i] \in Node
                                 /\ list[i].at \in Nat /\ list[i].size \in Nat
                                 /\ End(list[i]) = list[i].at + list[i].size
                                 /\ End(list[i]) \in Nat
    <2>1. \A i \in 1..Len(list) : list[i] \in Node
        BY <1>1, NodeWise
    <2>2. c \in Node
        BY <1>1, <2>1
    <2>3. QED
        BY <1>1, <2>1, <2>2, Numbers
<1>3. Rises(list) /\ StaysBelow(list, end) /\ ClearOf(list, Blocks) /\ FreeSpans = Spans(list)
    BY OrderedParts DEF ListInv
<1>4. c \in FreeSpans
    BY <1>1, <1>2, <1>3 DEF Spans, Nodes
<1>5. ASSUME NEW t \in FreeSpans, t.size >= wanted PROVE c.at <= t.at
    <2>1. PICK i \in 1..Len(list) : t = list[i]
        BY <1>3, <1>5 DEF Spans, Nodes
    <2>2. ~ (i < cursor)
        BY <1>1, <1>2, <1>5, <2>1 DEF ListInv, WalkSoFar
    <2>3. CASE i = cursor
        BY <1>2, <2>1, <2>3
    <2>4. CASE i > cursor
        <3>1. c.at < list[i].at
            BY <1>1, <1>3, <2>4 DEF Rises
        <3>2. QED
            BY <1>2, <2>1, <3>1
    <2>5. QED
        BY <1>1, <2>2, <2>3, <2>4
\* The size taken, and what remains.
<1>6. /\ g.at = c.at /\ g.size = Taken(c) /\ g.need = wanted /\ g.id = granted + 1
      /\ Taken(c) \in Nat \ {0} /\ Taken(c) <= c.size
      /\ g \in Grant /\ End(g) = c.at + Taken(c) /\ End(g) <= End(c)
    <2>1. Taken(c) \in Nat \ {0} /\ Taken(c) <= c.size
        BY <1>1, <1>2 DEF Taken
    <2>2. QED
        BY <1>1, <1>2, <2>1 DEF GrantMade, Grant, End
<1>7. ASSUME Splits(c)
      PROVE  /\ Remainder(c) \in Node
             /\ Remainder(c).at = c.at + wanted
             /\ Remainder(c).size = c.size - wanted
             /\ Remainder(c).size > 0
             /\ End(Remainder(c)) = End(c)
             /\ Taken(c) = wanted
    BY SMTT(30), <1>1, <1>2, <1>7, MinimumAssumption DEF Splits, Remainder, Taken, Node, End
<1>8. Blocks' = Blocks \cup {g}
    BY <1>1 DEF Blocks
<1>9. \A b \in Blocks : End(b) <= g.at \/ End(g) <= b.at
    <2> SUFFICES ASSUME NEW b \in Blocks PROVE End(b) <= g.at \/ End(g) <= b.at
        OBVIOUS
    <2>1. Clear(c, b)
        BY <1>1, <1>3 DEF ClearOf
    <2>2. b.at \in Nat /\ End(b) \in Nat
        BY BlockNumbers DEF ListInv
    <2>3. End(g) \in Nat /\ End(c) \in Nat
        BY <1>2, <1>6
    <2>4. QED
        BY <1>2, <1>6, <2>1, <2>2, <2>3 DEF Clear
<1>10. End(g) <= end
    <2>1. End(c) <= end
        BY <1>1, <1>3 DEF StaysBelow
    <2>2. QED
        BY <1>1, <1>2, <1>6, <2>1
<1> HIDE DEF c, g
\* Every other node lies before or after the block.
<1>11. ASSUME NEW i \in 1..Len(list), i # cursor
       PROVE  /\ list[i] # c
              /\ Clear(list[i], g)
              /\ i < cursor => list[i].at < c.at /\ End(list[i]) <= c.at
              /\ i > cursor => c.at < list[i].at /\ End(c) <= list[i].at
    <2>1. i < cursor => list[i].at < c.at /\ End(list[i]) <= c.at
        BY <1>1, <1>3 DEF Rises, c
    <2>2. i > cursor => c.at < list[i].at /\ End(c) <= list[i].at
        BY <1>1, <1>3 DEF Rises, c
    <2>3. i < cursor \/ i > cursor
        BY <1>1, <1>11
    <2>4. list[i].at \in Nat /\ End(list[i]) \in Nat
        BY <1>2
    <2>5. list[i] # c
        BY <1>2, <2>1, <2>2, <2>3, <2>4
    <2>6. Clear(list[i], g)
        <3>1. CASE i < cursor
            BY <1>6, <2>1, <3>1 DEF Clear
        <3>2. CASE i > cursor
            <4>1. End(g) <= End(c) /\ End(c) <= list[i].at
                BY <1>6, <2>2, <3>2
            <4>2. End(g) \in Nat /\ End(c) \in Nat
                BY <1>2, <1>6
            <4>3. QED
                BY <2>4, <4>1, <4>2 DEF Clear
        <3>3. QED
            BY <2>3, <3>1, <3>2
    <2>7. QED
        BY <2>1, <2>2, <2>5, <2>6
<1>12. CASE Splits(c)
    <2> DEFINE r == Remainder(c)
    <2>1. list' = Spliced(cursor, cursor, r)
        BY <1>1, <1>12
    <2>2. /\ r \in Node /\ r.at = c.at + wanted /\ r.size > 0 /\ End(r) = End(c)
          /\ Taken(c) = wanted /\ r.at \in Nat
        BY <1>1, <1>2, <1>7, <1>12
    <2> HIDE DEF r
    <2>3. cursor \in 1..Len(list) + 1 /\ cursor \in Int /\ cursor - 1 <= cursor /\ cursor <= Len(list)
        BY <1>1
    <2>4. list' \in Seq(Node)
        <3>1. Spliced(cursor, cursor, r) \in Seq(Node)
            BY <1>1, <2>2, <2>3, SplicedList
        <3>2. QED
            BY <2>1, <3>1
    <2>5. \A n : n \in Nodes(list') <=>
            n = r \/ \E i \in 1..Len(list) : i # cursor /\ n = list[i]
        <3>1. \A n : n \in Nodes(list') <=>
                n = r \/ \E i \in 1..Len(list) : (i < cursor \/ i > cursor) /\ n = list[i]
            BY <1>1, <2>1, <2>2, <2>3, SplicedNodes
        <3>2. \A i \in 1..Len(list) : (i < cursor \/ i > cursor) <=> i # cursor
            BY <1>1
        <3>3. QED
            BY <3>1, <3>2
    <2>6. Rises(list')
        <3>1. \A i \in 1..Len(list) : i < cursor => list[i].at < r.at /\ End(list[i]) <= r.at
            <4> SUFFICES ASSUME NEW i \in 1..Len(list), i < cursor
                         PROVE  list[i].at < r.at /\ End(list[i]) <= r.at
                OBVIOUS
            <4>1. i # cursor
                BY <1>1
            <4>2. list[i].at < c.at /\ End(list[i]) <= c.at
                BY <1>11, <4>1
            <4>3. list[i].at \in Nat /\ End(list[i]) \in Nat
                BY <1>2
            <4>4. QED
                BY SMTT(30), <1>1, <1>2, <2>2, <4>2, <4>3
        <3>2. \A i \in 1..Len(list) : i > cursor => r.at < list[i].at /\ End(r) <= list[i].at
            <4> SUFFICES ASSUME NEW i \in 1..Len(list), i > cursor
                         PROVE  r.at < list[i].at /\ End(r) <= list[i].at
                OBVIOUS
            <4>1. i # cursor
                BY <1>1
            <4>2. End(c) <= list[i].at /\ list[i].at \in Nat
                BY <1>2, <1>11, <4>1
            <4>3. r.at < End(c)
                BY SMTT(30), <1>1, <1>2, <1>7, <1>12, <2>2 DEF r
            <4>4. QED
                BY <1>2, <2>2, <4>2, <4>3
        <3>3. QED
            BY <1>1, <1>3, <2>1, <2>2, <2>3, <3>1, <3>2, SplicedRises
    <2>7. StaysBelow(list', end')
        <3>1. \A i \in 1..Len(list) : End(list[i]) <= end /\ list[i].at < end
            BY <1>3 DEF StaysBelow
        <3>2. End(c) <= end /\ End(c) = End(r)
            BY <1>1, <2>2, <3>1 DEF c
        <3>3. r.at < end
            BY <1>1, <1>2, <1>7, <1>12, <2>2, <3>2 DEF r
        <3>4. \A n \in Nodes(list') : End(n) <= end /\ n.at < end
            BY <2>2, <2>5, <3>1, <3>2, <3>3
        <3>5. QED
            BY <1>1, <2>4, <3>4, NodeWise
    <2>8. ClearOf(list', Blocks')
        <3>1. \A i \in 1..Len(list), b \in Blocks : Clear(list[i], b)
            BY <1>3 DEF ClearOf
        <3>2. Clear(r, g)
            BY <1>1, <1>2, <1>6, <2>2 DEF Clear
        <3>3. ASSUME NEW b \in Blocks PROVE Clear(r, b)
            <4>1. Clear(c, b)
                BY <1>1, <3>1 DEF c
            <4>2. b.at \in Nat /\ End(b) \in Nat /\ b.at < End(b)
                BY BlockNumbers DEF ListInv
            <4>3. c.at < End(c) /\ r.at < End(r)
                BY <1>1, <1>2, <1>7, <1>12, <2>2 DEF r
            <4>4. QED
                BY <1>1, <1>2, <2>2, <4>1, <4>2, <4>3 DEF Clear
        <3>4. \A n \in Nodes(list'), b \in Blocks' : Clear(n, b)
            BY <1>8, <1>11, <2>5, <3>1, <3>2, <3>3
        <3>5. QED
            BY <2>4, <3>4, NodeWise
    <2>9. FreeSpans' = (FreeSpans \ {c}) \cup {r}
        <3>1. \A n : n \in FreeSpans' <=> n \in Nodes(list') /\ n.size > 0
            BY OrderedParts DEF Spans
        <3>2. \A n : n \in FreeSpans <=> (\E i \in 1..Len(list) : n = list[i]) /\ n.size > 0
            BY <1>3 DEF Spans, Nodes
        <3>3. \A n : n \in FreeSpans' <=> n \in (FreeSpans \ {c}) \cup {r}
            <4> SUFFICES ASSUME NEW n
                         PROVE  n \in FreeSpans' <=> n = r \/ (n \in FreeSpans /\ n # c)
                OBVIOUS
            <4>1. n \in FreeSpans' <=>
                    /\ n = r \/ \E i \in 1..Len(list) : i # cursor /\ n = list[i]
                    /\ n.size > 0
                BY <2>5, <3>1
            <4>2. (\E i \in 1..Len(list) : i # cursor /\ n = list[i])
                    <=> (\E i \in 1..Len(list) : n = list[i]) /\ n # c
                BY <1>1, <1>11 DEF c
            <4>3. QED
                BY <2>2, <3>2, <4>1, <4>2
        <3>4. QED
            BY <3>3
    <2>10. ListOrdered'
        BY <2>6, <2>7, <2>8, OrderedParts
    <2>11. QED
        BY <1>1, <1>4, <1>5, <1>6, <1>8, <1>9, <1>10, <1>12, <2>4, <2>9, <2>10 DEF c, g, r
<1>13. CASE ~ Splits(c)
    <2>1. list' = Unlinked(cursor)
        BY <1>1, <1>13
    <2>2. list' \in Seq(Node)
        BY <1>1, <2>1, UnlinkedList
    <2>3. \A n : n \in Nodes(list') <=> \E i \in 1..Len(list) : i # cursor /\ n = list[i]
        BY <1>1, <2>1, UnlinkedNodes
    <2>4. Rises(list')
        BY <1>1, <1>3, <2>1, UnlinkedRises
    <2>5. StaysBelow(list', end')
        <3>1. \A i \in 1..Len(list) : End(list[i]) <= end /\ list[i].at < end
            BY <1>3 DEF StaysBelow
        <3>2. \A n \in Nodes(list') : End(n) <= end /\ n.at < end
            BY <2>3, <3>1
        <3>3. QED
            BY <1>1, <2>2, <3>2, NodeWise
    <2>6. ClearOf(list', Blocks')
        <3>1. \A i \in 1..Len(list), b \in Blocks : Clear(list[i], b)
            BY <1>3 DEF ClearOf
        <3>2. \A n \in Nodes(list'), b \in Blocks' : Clear(n, b)
            BY <1>8, <1>11, <2>3, <3>1
        <3>3. QED
            BY <2>2, <3>2, NodeWise
    <2>7. FreeSpans' = FreeSpans \ {c}
        <3>1. \A n : n \in FreeSpans' <=> n \in Nodes(list') /\ n.size > 0
            BY OrderedParts DEF Spans
        <3>2. \A n : n \in FreeSpans <=> (\E i \in 1..Len(list) : n = list[i]) /\ n.size > 0
            BY <1>3 DEF Spans, Nodes
        <3>3. \A n : (\E i \in 1..Len(list) : i # cursor /\ n = list[i])
                    <=> (\E i \in 1..Len(list) : n = list[i]) /\ n # c
            BY <1>1, <1>11 DEF c
        <3>4. \A n : n \in FreeSpans' <=> n \in FreeSpans \ {c}
            BY <2>3, <3>1, <3>2, <3>3
        <3>5. QED
            BY <3>4
    <2>8. ListOrdered'
        BY <2>4, <2>5, <2>6, OrderedParts
    <2>9. QED
        BY <1>1, <1>4, <1>5, <1>6, <1>8, <1>9, <1>10, <1>13, <2>2, <2>7, <2>8 DEF c, g
<1>14. QED
    BY <1>12, <1>13

-----------------------------------------------------------------------------
(* Inserting a freed block.                                                *)

\* Where the walk of a free stopped: the nodes before its cursor end before the
\* block, the others start after it.
LEMMA InsertPlace ==
    ASSUME ListInv, FreeInsert
    PROVE  /\ list \in Seq(Node) /\ Len(list) \in Nat
           /\ cursor \in 1..Len(list) + 1
           /\ freeing \in Blocks /\ freeing \in Grant
           /\ freeing.at \in Nat /\ freeing.size \in Nat \ {0}
           /\ End(freeing) = freeing.at + freeing.size /\ End(freeing) \in Nat
           /\ \A i \in 1..Len(list) : /\ list[i] \in Node
                                      /\ list[i].at \in Nat /\ list[i].size \in Nat
                                      /\ End(list[i]) = list[i].at + list[i].size
                                      /\ End(list[i]) \in Nat
           /\ \A i \in 1..Len(list) :
                i < cursor => list[i].at < freeing.at /\ End(list[i]) <= freeing.at
           /\ \A i \in 1..Len(list) : i >= cursor => End(freeing) <= list[i].at
           /\ \A i \in 1..Len(list) :
                i > cursor => cursor \in 1..Len(list) /\ End(freeing) < list[i].at
<1>1. list \in Seq(Node) /\ Len(list) \in Nat /\ \A i \in 1..Len(list) : list[i] \in Node
    BY NodeWise DEF ListInv, TypeOK
<1>2. freeing # Nobody /\ freeing \in Blocks
    BY DEF FreeInsert, Blocks
<1>3. cursor \in 1..Len(list) + 1
    BY <1>1, <1>2 DEF ListInv, TypeOK, WalkSoFar
<1>4. /\ freeing \in Grant
      /\ freeing.at \in Nat /\ freeing.size \in Nat \ {0}
      /\ End(freeing) = freeing.at + freeing.size /\ End(freeing) \in Nat
    BY <1>2, BlockNumbers DEF ListInv
<1>5. \A i \in 1..Len(list) : /\ list[i].at \in Nat /\ list[i].size \in Nat
                              /\ End(list[i]) = list[i].at + list[i].size
                              /\ End(list[i]) \in Nat
    BY <1>1, Numbers
<1>6. Rises(list) /\ \A i \in 1..Len(list) : Clear(list[i], freeing)
    BY <1>2, OrderedParts DEF ListInv, ClearOf
<1>7. ASSUME NEW i \in 1..Len(list), i < cursor
      PROVE  list[i].at < freeing.at /\ End(list[i]) <= freeing.at
    <2>1. list[i].at < freeing.at
        BY <1>2, <1>7 DEF ListInv, WalkSoFar
    <2>2. Clear(list[i], freeing)
        BY <1>6
    <2>3. list[i].at \in Nat
        BY <1>5
    <2>4. QED
        BY <1>4, <2>1, <2>2, <2>3 DEF Clear
<1>8. ASSUME cursor \in 1..Len(list)
      PROVE  End(freeing) <= list[cursor].at
    <2>1. ~ (list[cursor].at < freeing.at)
        BY <1>8 DEF FreeInsert, Before, Address
    <2>2. Clear(list[cursor], freeing)
        BY <1>6, <1>8
    <2>3. QED
        BY <2>1, <2>2 DEF Clear
<1>9. ASSUME NEW i \in 1..Len(list), i > cursor
      PROVE  cursor \in 1..Len(list) /\ End(freeing) < list[i].at
    <2>1. cursor \in 1..Len(list)
        BY <1>1, <1>3, <1>9
    <2>2. list[cursor].at < list[i].at
        BY <1>6, <1>9, <2>1 DEF Rises
    <2>3. list[cursor].at \in Nat /\ list[i].at \in Nat
        BY <1>5, <2>1
    <2>4. QED
        BY <1>4, <1>8, <2>1, <2>2, <2>3
<1>10. ASSUME NEW i \in 1..Len(list), i >= cursor
       PROVE  End(freeing) <= list[i].at
    <2>1. CASE i = cursor
        BY <1>8, <1>10, <2>1
    <2>2. CASE i > cursor
        BY <1>4, <1>5, <1>9, <2>2
    <2>3. QED
        BY <1>3, <1>10, <2>1, <2>2
<1>11. QED
    BY <1>1, <1>2, <1>3, <1>4, <1>5, <1>7, <1>9, <1>10

\* The node inserted, and the nodes it stands for: it starts where the block
\* before starts if that one ends at the freed block, and ends where the node
\* after ends if the freed block ends there.
LEMMA InsertedNode ==
    ASSUME ListInv, FreeInsert
    PROVE  LET lo == IF Joins THEN cursor - 1 ELSE cursor
               hi == IF Absorbs THEN cursor ELSE cursor - 1
           IN  /\ Inserted \in Node
               /\ Inserted.at \in Nat /\ Inserted.size \in Nat \ {0}
               /\ End(Inserted) = Inserted.at + Inserted.size
               /\ Inserted.at <= freeing.at /\ End(freeing) <= End(Inserted)
               /\ Joins => /\ cursor - 1 \in 1..Len(list)
                           /\ Inserted.at = list[cursor - 1].at
                           /\ End(list[cursor - 1]) = freeing.at
               /\ ~ Joins => Inserted.at = freeing.at
               /\ Absorbs => /\ cursor \in 1..Len(list)
                             /\ End(Inserted) = End(list[cursor])
                             /\ list[cursor].at = End(freeing)
               /\ ~ Absorbs => End(Inserted) = End(freeing)
               /\ cursor \in 1..Len(list) => (Absorbs <=> list[cursor].at = End(freeing))
               /\ lo \in 1..Len(list) + 1 /\ hi \in Int /\ lo - 1 <= hi /\ hi <= Len(list)
<1> USE InsertPlace
<1> DEFINE g == freeing
<1>1. Joins \in BOOLEAN /\ Absorbs \in BOOLEAN
    BY DEF Joins, Absorbs
<1>2. ASSUME Joins
      PROVE  cursor - 1 \in 1..Len(list) /\ End(list[cursor - 1]) = g.at
    BY <1>2 DEF Joins
<1>3. /\ Joined.at \in Nat /\ Joined.size \in Nat \ {0}
      /\ Joined.at <= g.at /\ End(Joined) = End(g)
      /\ Joined.at + Joined.size = End(g)
      /\ Joins => Joined.at = list[cursor - 1].at
      /\ ~ Joins => Joined.at = g.at
    <2>1. CASE Joins
        <3>1. cursor - 1 \in 1..Len(list) /\ End(list[cursor - 1]) = g.at
            BY <1>2, <2>1
        <3>2. /\ list[cursor - 1].at \in Nat /\ list[cursor - 1].size \in Nat
              /\ list[cursor - 1].at + list[cursor - 1].size = g.at
            BY <3>1
        <3>3. Joined = [at |-> list[cursor - 1].at, size |-> list[cursor - 1].size + g.size]
            BY <2>1 DEF Joined
        <3>4. Joined.at = list[cursor - 1].at /\ Joined.size = list[cursor - 1].size + g.size
            BY <3>3
        <3>5. list[cursor - 1].at < g.at
            BY <3>1
        <3>6. End(Joined) = Joined.at + Joined.size
            BY DEF End
        <3>7. Joined.at + Joined.size = g.at + g.size
            BY SMTT(30), <3>2, <3>4
        <3>8. Joined.size \in Nat \ {0} /\ Joined.at \in Nat /\ Joined.at <= g.at
            BY SMTT(30), <3>2, <3>4, <3>5
        <3>9. g.at + g.size = End(g)
            OBVIOUS
        <3>10. QED
            BY <2>1, <3>4, <3>6, <3>7, <3>8, <3>9
    <2>2. CASE ~ Joins
        <3>1. Joined = [at |-> g.at, size |-> g.size]
            BY <2>2 DEF Joined
        <3>2. Joined.at = g.at /\ Joined.size = g.size
            BY <3>1
        <3>3. QED
            BY <2>2, <3>2 DEF End
    <2>3. QED
        BY <2>1, <2>2
<1>4. cursor \in 1..Len(list) => (Absorbs <=> list[cursor].at = End(g))
    BY <1>3 DEF Absorbs
<1>5. Absorbs => cursor \in 1..Len(list) /\ list[cursor].at = End(g)
    BY <1>3 DEF Absorbs
<1>6. /\ Inserted.at = Joined.at
      /\ Inserted.size = IF Absorbs THEN Joined.size + list[cursor].size ELSE Joined.size
      /\ Inserted \in Node
    <2>1. (IF Absorbs THEN Joined.size + list[cursor].size ELSE Joined.size) \in Nat
        BY SMTT(30), <1>3, <1>5
    <2>2. QED
        BY <1>3, <2>1 DEF Inserted, Node
<1>7. Inserted.size \in Nat \ {0} /\ Joined.size <= Inserted.size
    <2>1. CASE Absorbs
        <3>1. list[cursor].size \in Nat
            BY <1>5, <2>1
        <3>2. Inserted.size = Joined.size + list[cursor].size
            BY <1>6, <2>1
        <3>3. QED
            BY SMTT(30), <1>3, <3>1, <3>2
    <2>2. CASE ~ Absorbs
        BY <1>3, <1>6, <2>2
    <2>3. QED
        BY <2>1, <2>2
<1>8. End(Inserted) = Inserted.at + Inserted.size
    BY DEF End
<1>9. Absorbs => End(Inserted) = End(list[cursor])
    <2> SUFFICES ASSUME Absorbs PROVE End(Inserted) = End(list[cursor])
        OBVIOUS
    <2>1. End(list[cursor]) = list[cursor].at + list[cursor].size /\ list[cursor].size \in Nat
        BY <1>5
    <2>2. End(Inserted) = Joined.at + (Joined.size + list[cursor].size)
        BY <1>6, <1>8
    <2>3. /\ Joined.at \in Nat /\ Joined.size \in Nat
          /\ list[cursor].at = Joined.at + Joined.size
        BY <1>3, <1>5
    <2> HIDE InsertPlace
    <2>4. Joined.at + (Joined.size + list[cursor].size)
            = (Joined.at + Joined.size) + list[cursor].size
        BY <2>1, <2>3
    <2>5. QED
        BY <2>1, <2>2, <2>3, <2>4
<1>10. ~ Absorbs => End(Inserted) = End(g)
    BY <1>3, <1>6, <1>8
<1>11. End(g) <= End(Inserted)
    BY <1>3, <1>6, <1>7, <1>8
<1>12. QED
    BY <1>1, <1>2, <1>3, <1>4, <1>5, <1>6, <1>7, <1>8, <1>9, <1>10, <1>11

\* The list with the block in it is in order, and its free blocks are those
\* FirstFit says: the freed one joined with its neighbours.
LEMMA InsertOutcome ==
    ASSUME ListInv, FreeInsert
    PROVE  /\ list' \in Seq(Node)
           /\ ListOrdered'
           /\ Blocks' = Blocks \ {freeing}
           /\ FreeSpans' = (FreeSpans \ (FF!Before(freeing) \cup FF!After(freeing)))
                                \cup {FF!Merged(freeing)}
<1> DEFINE g == freeing
           lo == IF Joins THEN cursor - 1 ELSE cursor
           hi == IF Absorbs THEN cursor ELSE cursor - 1
           node == Inserted
<1>1. /\ list \in Seq(Node) /\ Len(list) \in Nat /\ cursor \in 1..Len(list) + 1
      /\ g \in Blocks /\ g.at \in Nat /\ g.size \in Nat \ {0}
      /\ End(g) = g.at + g.size /\ End(g) \in Nat
    BY InsertPlace
<1>2. \A i \in 1..Len(list) : /\ list[i] \in Node
                              /\ list[i].at \in Nat /\ list[i].size \in Nat
                              /\ End(list[i]) = list[i].at + list[i].size
                              /\ End(list[i]) \in Nat
    BY InsertPlace
<1>3. /\ \A i \in 1..Len(list) : i < cursor => list[i].at < g.at /\ End(list[i]) <= g.at
      /\ \A i \in 1..Len(list) : i >= cursor => End(g) <= list[i].at
      /\ \A i \in 1..Len(list) :
            i > cursor => cursor \in 1..Len(list) /\ End(g) < list[i].at
    BY InsertPlace
<1>4. /\ node \in Node /\ node.at \in Nat /\ node.size \in Nat \ {0}
      /\ End(node) = node.at + node.size
      /\ node.at <= g.at /\ End(g) <= End(node)
      /\ Joins => /\ cursor - 1 \in 1..Len(list)
                  /\ node.at = list[cursor - 1].at
                  /\ End(list[cursor - 1]) = g.at
      /\ ~ Joins => node.at = g.at
      /\ Absorbs => /\ cursor \in 1..Len(list)
                    /\ End(node) = End(list[cursor])
                    /\ list[cursor].at = End(g)
      /\ ~ Absorbs => End(node) = End(g)
      /\ cursor \in 1..Len(list) => (Absorbs <=> list[cursor].at = End(g))
      /\ lo \in 1..Len(list) + 1 /\ hi \in Int /\ lo - 1 <= hi /\ hi <= Len(list)
    BY InsertedNode
<1>5. /\ Rises(list) /\ StaysBelow(list, end) /\ ClearOf(list, Blocks)
      /\ FreeSpans = Spans(list) /\ FreeSpans' = Spans(list')
    BY OrderedParts DEF ListInv
<1>6. list' = Spliced(lo, hi, node) /\ end' = end /\ Blocks' = live
    BY DEF FreeInsert, Blocks
<1>7. Blocks' = Blocks \ {g}
    BY <1>6 DEF Blocks, ListInv, BlocksApart
<1> HIDE DEF node, g
<1>8. \A i \in 1..Len(list) : (i < lo \/ i > hi) <=>
            ~ (Joins /\ i = cursor - 1) /\ ~ (Absorbs /\ i = cursor)
    BY <1>1
<1>9. \A i \in 1..Len(list) : /\ i < lo => list[i].at < node.at /\ End(list[i]) <= node.at
                              /\ i > hi => node.at < list[i].at /\ End(node) <= list[i].at
    <2> SUFFICES ASSUME NEW i \in 1..Len(list)
                 PROVE  /\ i < lo => list[i].at < node.at /\ End(list[i]) <= node.at
                        /\ i > hi => node.at < list[i].at /\ End(node) <= list[i].at
        OBVIOUS
    <2>1. CASE Joins /\ i < lo
        <3>1. cursor - 1 \in 1..Len(list) /\ node.at = list[cursor - 1].at /\ i < cursor - 1
            BY <1>4, <2>1
        <3>2. QED
            BY <1>1, <1>5, <2>1, <3>1 DEF Rises
    <2>2. CASE ~ Joins /\ i < lo
        BY <1>1, <1>3, <1>4, <2>2
    <2>3. CASE Absorbs /\ i > hi
        <3>1. cursor \in 1..Len(list) /\ End(node) = End(list[cursor]) /\ i > cursor
            BY <1>4, <2>3
        <3>2. list[cursor].at < list[i].at /\ End(list[cursor]) <= list[i].at
            BY <1>5, <3>1 DEF Rises
        <3>3. node.at < End(node) /\ list[i].at \in Nat /\ End(list[cursor]) \in Nat
            BY SMTT(30), <1>2, <1>4, <3>1
        <3>4. QED
            BY SMTT(30), <1>1, <1>4, <2>3, <3>1, <3>2, <3>3
    <2>4. CASE ~ Absorbs /\ i > hi
        <3>1. i >= cursor /\ End(node) = End(g)
            BY <1>1, <1>4, <2>4
        <3>2. End(g) <= list[i].at /\ list[i].at \in Nat
            BY <1>2, <1>3, <3>1
        <3>3. QED
            BY SMTT(30), <1>1, <1>4, <2>4, <3>1, <3>2
    <2>5. lo <= hi + 1
        BY <1>1
    <2>6. QED
        BY <1>1, <1>4, <2>1, <2>2, <2>3, <2>4, <2>5
<1> HIDE DEF lo, hi
<1>10. list' \in Seq(Node)
    <2>1. Spliced(lo, hi, node) \in Seq(Node)
        BY <1>1, <1>4, SplicedList
    <2>2. QED
        BY <1>6, <2>1
<1>11. \A n : n \in Nodes(list') <=>
            \/ n = node
            \/ \E i \in 1..Len(list) :
                /\ ~ (Joins /\ i = cursor - 1) /\ ~ (Absorbs /\ i = cursor)
                /\ n = list[i]
    <2>1. \A n : n \in Nodes(Spliced(lo, hi, node)) <=>
            n = node \/ \E i \in 1..Len(list) : (i < lo \/ i > hi) /\ n = list[i]
        BY <1>1, <1>4, SplicedNodes
    <2>2. QED
        BY <1>6, <1>8, <2>1
<1>12. Rises(list')
    <2>1. Rises(Spliced(lo, hi, node))
        BY <1>1, <1>4, <1>5, <1>9, SplicedRises
    <2>2. QED
        BY <1>6, <2>1
<1>13. StaysBelow(list', end')
    <2>1. \A i \in 1..Len(list) : End(list[i]) <= end /\ list[i].at < end
        BY <1>5 DEF StaysBelow
    <2>2. End(g) <= end /\ end \in Nat
        BY <1>1 DEF ListInv, BlocksApart, TypeOK, g
    <2>3. End(node) <= end
        BY <1>4, <2>1, <2>2
    <2>4. node.at < end
        BY SMTT(30), <1>1, <1>4, <2>2
    <2>5. \A n \in Nodes(list') : End(n) <= end /\ n.at < end
        BY <1>11, <2>1, <2>3, <2>4
    <2>6. QED
        BY <1>6, <1>10, <2>5, NodeWise
<1>14. ClearOf(list', Blocks')
    <2>1. \A i \in 1..Len(list), b \in Blocks : Clear(list[i], b)
        BY <1>5 DEF ClearOf
    <2>2. ASSUME NEW b \in Blocks, b # g PROVE Clear(node, b)
        <3>1. b.at \in Nat /\ End(b) \in Nat /\ b.at < End(b)
            BY BlockNumbers DEF ListInv
        <3>2. End(g) <= b.at \/ End(b) <= g.at
            BY <1>1, <2>2 DEF ListInv, BlocksApart
        <3>3. CASE End(g) <= b.at
            <4>1. node.at < b.at
                <5>1. g.at < End(g)
                    BY <1>1
                <5>2. node.at <= g.at /\ node.at \in Nat
                    BY <1>4
                <5>3. QED
                    BY <1>1, <3>1, <3>3, <5>1, <5>2
            <4>2. CASE ~ Absorbs
                BY <1>4, <3>3, <4>1, <4>2 DEF Clear
            <4>3. CASE Absorbs
                <5>1. cursor \in 1..Len(list) /\ End(node) = End(list[cursor])
                      /\ list[cursor].at = End(g)
                    BY <1>4, <4>3
                <5>2. Clear(list[cursor], b)
                    BY <2>1, <5>1
                <5>3. End(list[cursor]) <= b.at
                    BY <1>1, <3>1, <3>3, <5>1, <5>2 DEF Clear
                <5>4. QED
                    BY <4>1, <5>1, <5>3 DEF Clear
            <4>4. QED
                BY <4>2, <4>3
        <3>4. CASE End(b) <= g.at
            <4>1. CASE ~ Joins
                BY <1>4, <3>4, <4>1 DEF Clear
            <4>2. CASE Joins
                <5>1. cursor - 1 \in 1..Len(list) /\ node.at = list[cursor - 1].at
                      /\ End(list[cursor - 1]) = g.at
                    BY <1>4, <4>2
                <5>2. Clear(list[cursor - 1], b)
                    BY <2>1, <5>1
                <5>3. End(b) <= list[cursor - 1].at
                    BY <1>1, <3>1, <3>4, <5>1, <5>2 DEF Clear
                <5>4. QED
                    BY <5>1, <5>3 DEF Clear
            <4>3. QED
                BY <4>1, <4>2
        <3>5. QED
            BY <3>2, <3>3, <3>4
    <2>3. \A n \in Nodes(list'), b \in Blocks' : Clear(n, b)
        BY <1>7, <1>11, <2>1, <2>2
    <2>4. QED
        BY <1>10, <2>3, NodeWise
<1>15. ListOrdered'
    BY <1>12, <1>13, <1>14, OrderedParts
\* The neighbours found by the walk are the ones that touch.
<1>16. \A i \in 1..Len(list) : /\ End(list[i]) = g.at <=> Joins /\ i = cursor - 1
                               /\ End(g) = list[i].at <=> Absorbs /\ i = cursor
    <2> SUFFICES ASSUME NEW i \in 1..Len(list)
                 PROVE  /\ End(list[i]) = g.at <=> Joins /\ i = cursor - 1
                        /\ End(g) = list[i].at <=> Absorbs /\ i = cursor
        OBVIOUS
    <2>1. list[i].at \in Nat /\ End(list[i]) \in Nat /\ list[i].at <= End(list[i]) /\ g.at < End(g)
        BY SMTT(30), <1>1, <1>2
    <2>2. CASE i < cursor - 1
        <3>1. cursor - 1 \in 1..Len(list) /\ cursor - 1 < cursor
            BY <1>1, <2>2
        <3>2. End(list[i]) <= list[cursor - 1].at /\ list[cursor - 1].at < g.at
            BY <1>3, <1>5, <2>2, <3>1 DEF Rises
        <3>3. list[cursor - 1].at \in Nat
            BY <1>2, <3>1
        <3>4. QED
            BY <1>1, <2>1, <2>2, <3>2, <3>3
    <2>3. CASE i = cursor - 1
        <3>1. End(list[i]) = g.at <=> Joins
            BY <1>1, <2>3 DEF Joins, g
        <3>2. list[i].at < g.at
            BY <1>1, <1>3, <2>3
        <3>3. QED
            BY <1>1, <2>1, <2>3, <3>1, <3>2
    <2>4. CASE i = cursor
        <3>1. End(g) <= list[i].at
            BY <1>1, <1>3, <2>4
        <3>2. QED
            BY SMTT(30), <1>1, <1>4, <2>1, <2>4, <3>1
    <2>5. CASE i > cursor
        <3>1. End(g) < list[i].at
            BY <1>3, <2>5
        <3>2. QED
            BY <1>1, <2>1, <2>5, <3>1
    <2>6. QED
        BY <1>1, <2>2, <2>3, <2>4, <2>5
<1>17. /\ \A n : n \in FreeSpans <=> (\E i \in 1..Len(list) : n = list[i]) /\ n.size > 0
       /\ \A n : n \in FreeSpans' <=> n \in Nodes(list') /\ n.size > 0
    BY <1>5 DEF Spans, Nodes
<1>18. /\ \A n : n \in FF!Before(g) <=> n \in FreeSpans /\ End(n) = g.at
       /\ \A n : n \in FF!After(g) <=> n \in FreeSpans /\ End(g) = n.at
    BY DEF FF!Before, FF!After, FF!Touches, FF!End, End
<1>19. FF!Before(g) = IF Joins THEN {list[cursor - 1]} ELSE {}
    <2>1. CASE Joins
        <3>1. /\ cursor - 1 \in 1..Len(list) /\ cursor - 1 < cursor
              /\ End(list[cursor - 1]) = g.at
            BY <1>1, <1>4, <2>1
        <3>2. list[cursor - 1].at < g.at
            BY <1>3, <3>1
        <3>3. list[cursor - 1].size > 0
            BY <1>1, <1>2, <3>1, <3>2
        <3>4. list[cursor - 1] \in FF!Before(g)
            BY <1>17, <1>18, <3>1, <3>3
        <3>5. \A n \in FF!Before(g) : n = list[cursor - 1]
            BY <1>16, <1>17, <1>18
        <3>6. QED
            BY <2>1, <3>4, <3>5
    <2>2. CASE ~ Joins
        BY <1>16, <1>17, <1>18, <2>2
    <2>3. QED
        BY <2>1, <2>2
<1>20. FF!After(g) = IF Absorbs /\ list[cursor].size > 0 THEN {list[cursor]} ELSE {}
    <2>1. CASE Absorbs /\ list[cursor].size > 0
        <3>1. cursor \in 1..Len(list) /\ list[cursor].at = End(g)
            BY <1>4, <2>1
        <3>2. list[cursor] \in FF!After(g)
            BY <1>17, <1>18, <2>1, <3>1
        <3>3. \A n \in FF!After(g) : n = list[cursor]
            BY <1>16, <1>17, <1>18
        <3>4. QED
            BY <2>1, <3>2, <3>3
    <2>2. CASE ~ (Absorbs /\ list[cursor].size > 0)
        <3>1. \A n : n \notin FF!After(g)
            BY <1>16, <1>17, <1>18, <2>2
        <3>2. QED
            BY <2>2, <3>1
    <2>3. QED
        BY <2>1, <2>2
<1>21. FF!Merged(g) = node
    <2> DEFINE a == IF FF!Before(g) = {} THEN g.at
                    ELSE (CHOOSE f \in FF!Before(g) : TRUE).at
               z == IF FF!After(g) = {} THEN FF!End(g)
                    ELSE FF!End(CHOOSE f \in FF!After(g) : TRUE)
    <2>1. FF!Merged(g) = [at |-> a, size |-> z - a]
        BY DEF FF!Merged
    <2>2. \A s : FF!End(s) = End(s)
        BY DEF FF!End, End
    <2>3. a = node.at
        <3>1. CASE Joins
            <4>1. FF!Before(g) = {list[cursor - 1]}
                BY <1>19, <3>1
            <4>2. (CHOOSE f \in FF!Before(g) : TRUE) = list[cursor - 1]
                BY <4>1
            <4>3. QED
                BY <1>4, <3>1, <4>1, <4>2
        <3>2. CASE ~ Joins
            BY <1>4, <1>19, <3>2
        <3>3. QED
            BY <3>1, <3>2
    <2>4. z = End(node)
        <3>1. CASE Absorbs /\ list[cursor].size > 0
            <4>1. FF!After(g) = {list[cursor]}
                BY <1>20, <3>1
            <4>2. (CHOOSE f \in FF!After(g) : TRUE) = list[cursor]
                BY <4>1
            <4>3. QED
                BY <1>4, <2>2, <3>1, <4>1, <4>2
        <3>2. CASE ~ (Absorbs /\ list[cursor].size > 0)
            <4>1. FF!After(g) = {}
                BY <1>20, <3>2
            <4>2. End(node) = End(g)
                BY <1>1, <1>2, <1>4, <3>2
            <4>3. QED
                BY <2>2, <4>1, <4>2
        <3>3. QED
            BY <3>1, <3>2
    <2>5. z - a = node.size
        BY <1>4, <2>3, <2>4
    <2> HIDE DEF a, z
    <2>6. node = [at |-> node.at, size |-> node.size]
        BY <1>4 DEF Node
    <2>7. QED
        BY <2>1, <2>3, <2>5, <2>6
<1>22. FreeSpans' = (FreeSpans \ (FF!Before(g) \cup FF!After(g))) \cup {node}
    <2>1. ASSUME NEW n
          PROVE  n \in FreeSpans' <=>
                    n = node \/ (n \in FreeSpans /\ n \notin FF!Before(g) /\ n \notin FF!After(g))
        <3>1. node \in FreeSpans'
            BY <1>4, <1>11, <1>17
        <3>2. ASSUME n \in FreeSpans', n # node
              PROVE  n \in FreeSpans /\ n \notin FF!Before(g) /\ n \notin FF!After(g)
            <4>1. PICK i \in 1..Len(list) :
                    /\ ~ (Joins /\ i = cursor - 1) /\ ~ (Absorbs /\ i = cursor)
                    /\ n = list[i]
                BY <1>11, <1>17, <3>2
            <4>2. QED
                BY <1>16, <1>17, <1>18, <3>2, <4>1
        <3>3. ASSUME n \in FreeSpans, n \notin FF!Before(g), n \notin FF!After(g)
              PROVE  n \in FreeSpans'
            <4>1. PICK i \in 1..Len(list) : n = list[i]
                BY <1>17, <3>3
            <4>2. ~ (Joins /\ i = cursor - 1) /\ ~ (Absorbs /\ i = cursor)
                BY <1>16, <1>18, <3>3, <4>1
            <4>3. QED
                BY <1>11, <1>17, <3>3, <4>1, <4>2
        <3>4. QED
            BY <3>1, <3>2, <3>3
    <2>2. QED
        BY <2>1
<1>23. QED
    BY <1>7, <1>10, <1>15, <1>21, <1>22 DEF g

-----------------------------------------------------------------------------
(* The invariant.                                                          *)

LEMMA InitInv == Init => ListInv
<1> SUFFICES ASSUME Init PROVE ListInv
    OBVIOUS
<1>1. list \in Seq(Node) /\ Len(list) = 0 /\ Blocks = {}
    BY EmptySeq DEF Init, Blocks
<1>2. TypeOK
    BY <1>1, GrantsAssumption DEF Init, TypeOK
<1>3. ListOrdered
    BY <1>1 DEF ListOrdered
<1>4. BlocksApart /\ WalkSoFar /\ Untouched
    BY <1>1 DEF Init, BlocksApart, WalkSoFar, Untouched
<1>5. QED
    BY <1>2, <1>3, <1>4 DEF ListInv

\* Between two calls there is no walk.
LEMMA DefineInv ==
    ASSUME ListInv, NEW table \in Tables, DefineRegions(table)
    PROVE  ListInv'
<1>1. IsTable(table)
    BY TablesAssumption
<1>2. /\ list' \in Seq(Node) /\ end' \in Nat /\ room' \in Nat /\ low' = room'
      /\ arena' \subseteq Span /\ arena' # {} /\ ListOrdered' /\ BlocksApart'
    BY <1>1, LaidOut DEF DefineRegions
<1>3. cursor \in {0, 1} /\ Len(list') \in Nat
    BY <1>2, NodeWise, EmptySeq DEF ListInv, TypeOK, Untouched, DefineRegions
<1>4. TypeOK'
    BY <1>2, <1>3 DEF DefineRegions, ListInv, TypeOK
<1>5. WalkSoFar'
    BY DEF DefineRegions, Idle, WalkSoFar
<1>6. Untouched'
    BY <1>2 DEF Untouched
<1>7. QED
    BY <1>2, <1>4, <1>5, <1>6 DEF ListInv

LEMMA CallAllocInv ==
    ASSUME ListInv, NEW need \in Sizes, CallAlloc(need)
    PROVE  ListInv'
<1>1. /\ list' \in Seq(Node) /\ end' \in Nat /\ room' \in Int /\ low' \in Int
      /\ arena' \subseteq Span /\ arena' # {} /\ ListOrdered' /\ BlocksApart'
    <2>1. CASE arena = {}
        <3>1. IsTable(WholeArena) /\ Lay(WholeArena) /\ live' = live /\ freeing' = freeing /\ Idle
            BY <2>1, TablesAssumption DEF CallAlloc
        <3>2. QED
            BY <2>1, <3>1, LaidOut
    <2>2. CASE arena # {}
        <3>1. /\ list' = list /\ end' = end /\ room' = room /\ low' = low /\ arena' = arena
              /\ live' = live /\ freeing' = freeing
            BY <2>2 DEF CallAlloc
        <3>2. Blocks' = Blocks
            BY <3>1 DEF Blocks
        <3>3. ListOrdered'
            BY <3>1, <3>2 DEF ListInv, ListOrdered
        <3>4. BlocksApart'
            BY <3>1, <3>2 DEF ListInv, BlocksApart
        <3>5. QED
            BY <2>2, <3>1, <3>3, <3>4 DEF ListInv, TypeOK
    <2>3. QED
        BY <2>1, <2>2
<1>2. /\ live' = live /\ granted' = granted /\ freeing' = freeing /\ freeing = Nobody
      /\ granted < MaxGrants
    BY DEF CallAlloc, Idle
<1>3. Len(list') \in Nat
    BY <1>1, NodeWise
<1>4. CASE wanted' = need /\ cursor' = 1
    <2>1. TypeOK'
        BY <1>1, <1>2, <1>3, <1>4 DEF ListInv, TypeOK
    <2>2. WalkSoFar'
        BY <1>1, <1>2, <1>3, <1>4 DEF WalkSoFar
    <2>3. QED
        BY <1>1, <2>1, <2>2 DEF ListInv, Untouched
<1>5. CASE wanted' = wanted /\ cursor' = cursor
    <2>1. wanted = 0
        BY DEF CallAlloc, Idle
    <2>2. cursor' \in 0..Len(list') + 1
        <3>1. CASE arena = {}
            <4>1. cursor \in {0, 1}
                BY <3>1, EmptySeq DEF ListInv, TypeOK, Untouched
            <4>2. QED
                BY <1>3, <1>5, <4>1
        <3>2. CASE arena # {}
            BY <1>5, <3>2 DEF CallAlloc, ListInv, TypeOK
        <3>3. QED
            BY <3>1, <3>2
    <2>3. TypeOK'
        BY <1>1, <1>2, <1>5, <2>2 DEF ListInv, TypeOK
    <2>4. WalkSoFar'
        BY <1>2, <1>5, <2>1 DEF WalkSoFar
    <2>5. QED
        BY <1>1, <2>3, <2>4 DEF ListInv, Untouched
<1>6. QED
    BY <1>4, <1>5 DEF CallAlloc

LEMMA CallFreeInv ==
    ASSUME ListInv, NEW g \in live, CallFree(g)
    PROVE  ListInv' /\ Blocks' = Blocks /\ room' - freeing'.size = room - freeing.size
<1>1. /\ list' = list /\ end' = end /\ arena' = arena /\ granted' = granted /\ low' = low
      /\ wanted' = wanted /\ wanted = 0 /\ freeing = Nobody /\ freeing' = g /\ cursor' = 1
      /\ live' = live \ {g} /\ room' = room + g.size
    BY DEF CallFree, Idle
<1>2. g \in Grant /\ g # Nobody /\ g.size \in Nat /\ room \in Int /\ Len(list) \in Nat
    BY Numbers, NodeWise DEF ListInv, TypeOK
<1>3. Blocks' = Blocks
    BY <1>1, <1>2 DEF Blocks
<1>4. TypeOK'
    <2>1. cursor' \in 0..Len(list') + 1
        BY <1>1, <1>2
    <2>2. room' \in Int
        BY <1>1, <1>2
    <2>3. QED
        BY <1>1, <1>2, <2>1, <2>2 DEF ListInv, TypeOK
<1>5. ListOrdered'
    BY <1>1, <1>3 DEF ListInv, ListOrdered
<1>6. BlocksApart'
    BY <1>1, <1>3 DEF ListInv, BlocksApart
<1>7. WalkSoFar'
    BY <1>1, <1>2 DEF WalkSoFar
<1>8. Untouched'
    BY <1>1 DEF ListInv, Untouched
<1>9. room' - freeing'.size = room - freeing.size
    BY <1>1, <1>2 DEF Nobody
<1>10. QED
    BY <1>3, <1>4, <1>5, <1>6, <1>7, <1>8, <1>9 DEF ListInv

LEMMA AllocHopInv == ListInv /\ AllocHop => ListInv'
<1> SUFFICES ASSUME ListInv, AllocHop PROVE ListInv'
    OBVIOUS
<1>1. /\ list' = list /\ end' = end /\ arena' = arena /\ live' = live /\ granted' = granted
      /\ room' = room /\ low' = low /\ wanted' = wanted /\ freeing' = freeing
      /\ cursor' = cursor + 1 /\ wanted > 0 /\ cursor <= Len(list)
      /\ ~ (list[cursor].size >= wanted)
    BY DEF AllocHop, Advanced, Fits
<1>2. /\ Len(list) \in Nat /\ wanted \in Nat \ {0} /\ cursor \in 1..Len(list)
      /\ \A i \in 1..Len(list) : list[i].size \in Nat
    <2>1. Len(list) \in Nat /\ \A i \in 1..Len(list) : list[i] \in Node
        BY NodeWise DEF ListInv, TypeOK
    <2>2. wanted \in Nat \ {0}
        BY <1>1, SizesAssumption DEF ListInv, TypeOK
    <2>3. cursor \in 1..Len(list)
        BY <1>1, <2>1, <2>2 DEF ListInv, TypeOK, WalkSoFar
    <2>4. QED
        BY <2>1, <2>2, <2>3, Numbers
<1>3. TypeOK'
    BY <1>1, <1>2 DEF ListInv, TypeOK
<1>4. Blocks' = Blocks
    BY <1>1 DEF Blocks
<1>5. ListOrdered' /\ BlocksApart' /\ Untouched'
    BY <1>1, <1>4 DEF ListInv, ListOrdered, BlocksApart, Untouched
<1>6. \A i \in 1..Len(list) : i < cursor + 1 => list[i].size < wanted
    <2> SUFFICES ASSUME NEW i \in 1..Len(list), i < cursor + 1 PROVE list[i].size < wanted
        OBVIOUS
    <2>1. CASE i < cursor
        BY <1>1, <2>1 DEF ListInv, WalkSoFar
    <2>2. CASE i = cursor
        BY <1>1, <1>2, <2>2
    <2>3. QED
        BY <1>2, <2>1, <2>2
<1>7. WalkSoFar'
    BY <1>1, <1>2, <1>6 DEF ListInv, WalkSoFar
<1>8. QED
    BY <1>3, <1>5, <1>7 DEF ListInv

LEMMA AllocTakeInv == ListInv /\ AllocTake => ListInv'
<1> SUFFICES ASSUME ListInv, AllocTake PROVE ListInv'
    OBVIOUS
<1> DEFINE g == GrantMade
<1>1. /\ list' \in Seq(Node) /\ ListOrdered' /\ Blocks' = Blocks \cup {g} /\ g \in Grant
      /\ \A b \in Blocks : End(b) <= g.at \/ End(g) <= b.at
      /\ End(g) <= end
    BY TakeOutcome
<1>2. /\ end' = end /\ arena' = arena /\ freeing' = freeing /\ granted' = granted + 1
      /\ wanted' = 0 /\ cursor' = 0 /\ live' = live \cup {g}
      /\ room' = room - Taken(list[cursor])
      /\ low' = IF room' < low THEN room' ELSE low
      /\ wanted > 0
    BY DEF AllocTake, GrantMade
<1>3. freeing = Nobody /\ granted < MaxGrants /\ arena # {}
    BY <1>2 DEF ListInv, WalkSoFar
<1>4. Taken(list[cursor]) = g.size
    BY DEF GrantMade
<1> HIDE DEF g
<1>5. TypeOK'
    <2>1. Len(list') \in Nat
        BY <1>1, NodeWise
    <2>2. room' \in Int
        BY <1>1, <1>2, <1>4, Numbers DEF ListInv, TypeOK
    <2>3. low' \in Int
        BY <1>2, <2>2 DEF ListInv, TypeOK
    <2>4. granted' \in 0..MaxGrants
        BY <1>2, <1>3, GrantsAssumption DEF ListInv, TypeOK
    <2>5. QED
        BY <1>1, <1>2, <2>1, <2>2, <2>3, <2>4 DEF ListInv, TypeOK
<1>6. BlocksApart'
    <2>1. freeing' \notin live'
        <3>1. g # Nobody
            BY <1>1, Numbers
        <3>2. QED
            BY <1>2, <1>3, <3>1 DEF ListInv, BlocksApart
    <2>2. QED
        BY <1>1, <1>2, <2>1 DEF ListInv, BlocksApart
<1>7. WalkSoFar' /\ Untouched'
    BY <1>2, <1>3 DEF WalkSoFar, Untouched
<1>8. QED
    BY <1>1, <1>5, <1>6, <1>7 DEF ListInv

LEMMA AllocNoneInv == ListInv /\ AllocNone => ListInv'
<1> SUFFICES ASSUME ListInv, AllocNone PROVE ListInv'
    OBVIOUS
<1>1. /\ list' = list /\ end' = end /\ arena' = arena /\ live' = live /\ granted' = granted
      /\ room' = room /\ low' = low /\ wanted' = 0 /\ freeing' = freeing /\ cursor' = 0
      /\ freeing = Nobody
    BY DEF AllocNone, ListInv, WalkSoFar
<1>2. Blocks' = Blocks /\ Len(list) \in Nat
    BY <1>1, NodeWise DEF Blocks, ListInv, TypeOK
<1>3. TypeOK'
    BY <1>1, <1>2 DEF ListInv, TypeOK
<1>4. ListOrdered' /\ BlocksApart' /\ Untouched' /\ WalkSoFar'
    BY <1>1, <1>2 DEF ListInv, ListOrdered, BlocksApart, Untouched, WalkSoFar
<1>5. QED
    BY <1>3, <1>4 DEF ListInv

\* while next < insert ends at pxEnd at the latest: a block lies below it.
LEMMA FreeHopInv == ListInv /\ FreeHop => ListInv'
<1> SUFFICES ASSUME ListInv, FreeHop PROVE ListInv'
    OBVIOUS
<1>1. /\ list' = list /\ end' = end /\ arena' = arena /\ live' = live /\ granted' = granted
      /\ room' = room /\ low' = low /\ wanted' = wanted /\ freeing' = freeing
      /\ cursor' = cursor + 1 /\ freeing # Nobody /\ Address(cursor) < freeing.at
    BY DEF FreeHop, Before
<1>2. Blocks' = Blocks /\ Len(list) \in Nat /\ wanted = 0
      /\ cursor \in 1..Len(list) + 1 /\ freeing \in Blocks
    BY <1>1, NodeWise DEF Blocks, ListInv, TypeOK, WalkSoFar
<1>3. cursor \in 1..Len(list)
    <2>1. freeing.at \in Nat /\ freeing.at < End(freeing) /\ End(freeing) \in Nat
        BY <1>2, BlockNumbers DEF ListInv
    <2>2. End(freeing) <= end /\ end \in Nat
        BY <1>2 DEF ListInv, BlocksApart, TypeOK
    <2>3. ~ (end < freeing.at)
        BY <2>1, <2>2
    <2>4. QED
        BY <1>1, <1>2, <2>3 DEF Address
<1>4. TypeOK'
    BY <1>1, <1>2, <1>3 DEF ListInv, TypeOK
<1>5. ListOrdered' /\ BlocksApart' /\ Untouched'
    BY <1>1, <1>2 DEF ListInv, ListOrdered, BlocksApart, Untouched
<1>6. \A i \in 1..Len(list) : i < cursor + 1 => list[i].at < freeing.at
    <2> SUFFICES ASSUME NEW i \in 1..Len(list), i < cursor + 1 PROVE list[i].at < freeing.at
        OBVIOUS
    <2>1. CASE i < cursor
        BY <1>1, <2>1 DEF ListInv, WalkSoFar
    <2>2. CASE i = cursor
        BY <1>1, <1>3, <2>2 DEF Address
    <2>3. QED
        BY <1>3, <2>1, <2>2
<1>7. WalkSoFar'
    BY <1>1, <1>2, <1>6 DEF WalkSoFar
<1>8. QED
    BY <1>4, <1>5, <1>7 DEF ListInv

LEMMA FreeInsertInv == ListInv /\ FreeInsert => ListInv'
<1> SUFFICES ASSUME ListInv, FreeInsert PROVE ListInv'
    OBVIOUS
<1>1. list' \in Seq(Node) /\ ListOrdered' /\ Blocks' = Blocks \ {freeing}
    BY InsertOutcome
<1>2. /\ end' = end /\ arena' = arena /\ live' = live /\ granted' = granted
      /\ room' = room /\ low' = low /\ wanted' = wanted /\ freeing' = Nobody /\ cursor' = 0
      /\ freeing # Nobody /\ wanted = 0
    BY DEF FreeInsert, ListInv, WalkSoFar
<1>3. TypeOK'
    <2>1. Len(list') \in Nat
        BY <1>1, NodeWise
    <2>2. QED
        BY <1>1, <1>2, <2>1 DEF ListInv, TypeOK
<1>4. BlocksApart'
    <2>1. Nobody \notin live
        BY Numbers DEF ListInv, TypeOK
    <2>2. QED
        BY <1>1, <1>2, <2>1 DEF ListInv, BlocksApart
<1>5. WalkSoFar' /\ Untouched'
    BY <1>2 DEF WalkSoFar, Untouched, ListInv
<1>6. QED
    BY <1>1, <1>3, <1>4, <1>5 DEF ListInv

LEMMA NextInv == ListInv /\ [Next]_vars => ListInv'
<1> SUFFICES ASSUME ListInv, [Next]_vars PROVE ListInv'
    OBVIOUS
<1>1. ASSUME NEW table \in Tables, DefineRegions(table) PROVE ListInv'
    BY <1>1, DefineInv
<1>2. ASSUME NEW need \in Sizes, CallAlloc(need) PROVE ListInv'
    BY <1>2, CallAllocInv
<1>3. ASSUME NEW g \in live, CallFree(g) PROVE ListInv'
    BY <1>3, CallFreeInv
<1>4. CASE Step
    BY <1>4, AllocHopInv, AllocTakeInv, AllocNoneInv, FreeHopInv, FreeInsertInv DEF Step
<1>5. CASE UNCHANGED vars
    <2>1. Blocks' = Blocks
        BY <1>5 DEF vars, Blocks
    <2>2. TypeOK' /\ ListOrdered' /\ BlocksApart' /\ WalkSoFar' /\ Untouched'
        BY <1>5, <2>1 DEF vars, ListInv, TypeOK, ListOrdered, BlocksApart, WalkSoFar, Untouched
    <2>3. QED
        BY <2>2 DEF ListInv
<1>6. QED
    BY <1>1, <1>2, <1>3, <1>4, <1>5 DEF Next

LEMMA AlwaysInv == Spec => []ListInv
BY InitInv, NextInv, PTL DEF Spec

\* The list of headers, the blocks and the cursor of a running call have their
\* types, in every heap.
THEOREM FreeListTypes == Spec => []TypeOK
<1>1. ListInv => TypeOK
    BY DEF ListInv
<1>2. QED
    BY AlwaysInv, <1>1, PTL

\* The free list stays in address order, without overlap, below pxEnd and clear
\* of every held block, in every heap and after every sequence of calls.
THEOREM FreeListOrdered == Spec => []ListOrdered
<1>1. ListInv => ListOrdered
    BY DEF ListInv
<1>2. QED
    BY AlwaysInv, <1>1, PTL

-----------------------------------------------------------------------------
(* The walks implement FirstFit.                                           *)

LEMMA InitRefines == Init => FF!Init
<1> SUFFICES ASSUME Init PROVE FF!Init
    OBVIOUS
<1>1. Len(list) = 0
    BY EmptySeq DEF Init
<1>2. FreeSpans = {} /\ Blocks = {}
    BY <1>1 DEF Init, FreeSpans, Blocks
<1>3. room - freeing.size = 0
    BY DEF Init, Nobody
<1>4. QED
    BY <1>2, <1>3 DEF Init, FF!Init

\* Laying out is FirstFit's, whichever call does it.
LEMMA LayRefines ==
    ASSUME ListInv, Idle, arena = {}, NEW table \in Tables \cup {WholeArena}, Lay(table),
           live' = live, granted' = granted, freeing' = freeing
    PROVE  FF!Next
<1>1. IsTable(table)
    BY TablesAssumption
<1>2. /\ arena' = Regions(table) /\ FreeSpans' = arena'
      /\ room' = Cardinality(Cells(arena')) /\ low' = room' /\ room' \in Nat
    BY <1>1, LaidOut
<1>3. room' - freeing'.size = room'
    BY <1>2 DEF Idle, Nobody
<1>4. Blocks' = Blocks
    BY DEF Blocks
<1>5. FF!Cells(Regions(table)) = Cells(Regions(table))
    BY DEF FF!Cells, FF!End, Cells, End
<1>6. FF!LayOut(Regions(table))
    <2>1. room' - freeing'.size = FF!Cardinality(FF!Cells(Regions(table)))
        <3>1. FF!Cardinality(Cells(Regions(table))) = Cardinality(Cells(Regions(table)))
            BY DEF FF!Cardinality, Cardinality
        <3>2. QED
            BY <1>2, <1>3, <1>5, <3>1
    <2>2. low' = room' - freeing'.size
        BY <1>2, <1>3
    <2>3. arena' = Regions(table) /\ FreeSpans' = Regions(table) /\ granted' = granted
        BY <1>2
    <2>4. QED
        BY <1>4, <2>1, <2>2, <2>3 DEF FF!LayOut
<1>7. Regions(table) \in {Regions(t) : t \in Tables} \cup {Regions(WholeArena)}
    OBVIOUS
<1>8. QED
    BY <1>2, <1>6, <1>7 DEF FF!Next

LEMMA TakeRefines == ListInv /\ AllocTake => FF!Next
<1> SUFFICES ASSUME ListInv, AllocTake PROVE FF!Next
    OBVIOUS
<1> DEFINE c == list[cursor]
           g == GrantMade
<1>1. /\ c \in FreeSpans /\ c.size >= wanted
      /\ \A t \in FreeSpans : t.size >= wanted => c.at <= t.at
      /\ Blocks' = Blocks \cup {g} /\ g \in Grant
      /\ FreeSpans' = (FreeSpans \ {c}) \cup (IF Splits(c) THEN {Remainder(c)} ELSE {})
    BY TakeOutcome
<1>2. /\ arena' = arena /\ freeing' = freeing /\ granted' = granted + 1
      /\ room' = room - Taken(c)
      /\ low' = IF room' < low THEN room' ELSE low
      /\ wanted > 0
    BY DEF AllocTake
<1>3. freeing = Nobody /\ granted < MaxGrants /\ arena # {}
    BY <1>2 DEF ListInv, WalkSoFar
<1>4. wanted \in Sizes
    BY <1>2 DEF ListInv, TypeOK
<1>5. FF!Remainder(c, wanted) = IF Splits(c) THEN {Remainder(c)} ELSE {}
    BY DEF FF!Remainder, Splits, Remainder
<1>6. FF!Taken(c, wanted) = Taken(c)
    BY <1>5 DEF FF!Taken, Taken
<1>7. FF!FirstFitting(FreeSpans, c, wanted)
    BY <1>1 DEF FF!FirstFitting
<1>8. g = [at |-> c.at, size |-> FF!Taken(c, wanted), need |-> wanted, id |-> FF!NextId]
    BY <1>6 DEF GrantMade, FF!NextId
<1>9. /\ room \in Int /\ room - freeing.size = room /\ room' - freeing'.size = room'
      /\ Taken(c) \in Nat
    <2>1. g.size = Taken(c) /\ g.size \in Nat
        BY <1>1, Numbers DEF GrantMade
    <2>2. room \in Int
        BY DEF ListInv, TypeOK
    <2>3. room' \in Int
        BY <1>2, <2>1, <2>2
    <2>4. QED
        BY <1>2, <1>3, <2>1, <2>2, <2>3 DEF Nobody
<1> HIDE DEF c, g
<1>10. FF!GrantFrom(FreeSpans, arena, room - freeing.size, low, wanted)
    <2>1. FreeSpans' = (FreeSpans \ {c}) \cup FF!Remainder(c, wanted)
        BY <1>1, <1>5
    <2>2. Blocks' = Blocks \cup {[at |-> c.at, size |-> FF!Taken(c, wanted),
                                  need |-> wanted, id |-> FF!NextId]}
        BY <1>1, <1>8
    <2>3. room' - freeing'.size = (room - freeing.size) - FF!Taken(c, wanted)
        BY <1>2, <1>6, <1>9
    <2>4. low' = IF room' - freeing'.size < low THEN room' - freeing'.size ELSE low
        BY <1>2, <1>9
    <2>5. QED
        BY <1>1, <1>2, <1>3, <1>7, <2>1, <2>2, <2>3, <2>4 DEF FF!GrantFrom
<1>11. FF!Alloc(wanted)
    BY <1>3, <1>10 DEF FF!Alloc
<1>12. QED
    BY <1>4, <1>11 DEF FF!Next

LEMMA InsertRefines == ListInv /\ FreeInsert => FF!Next
<1> SUFFICES ASSUME ListInv, FreeInsert PROVE FF!Next
    OBVIOUS
<1> DEFINE g == freeing
<1>1. /\ Blocks' = Blocks \ {g}
      /\ FreeSpans' = (FreeSpans \ (FF!Before(g) \cup FF!After(g))) \cup {FF!Merged(g)}
    BY InsertOutcome
<1>2. g \in Blocks /\ g.size \in Nat
    BY InsertPlace
<1>3. /\ arena' = arena /\ granted' = granted /\ low' = low /\ room' = room /\ freeing' = Nobody
    BY DEF FreeInsert
<1>4. room' - freeing'.size = (room - g.size) + g.size
    BY <1>2, <1>3 DEF Nobody, ListInv, TypeOK
<1>5. FF!Free(g)
    BY <1>1, <1>3, <1>4 DEF FF!Free
<1>6. QED
    BY <1>2, <1>5 DEF FF!Next

\* What does not reach the blocks.
LEMMA QuietRefines ==
    ASSUME list' = list, arena' = arena, Blocks' = Blocks, granted' = granted, low' = low,
           room' - freeing'.size = room - freeing.size
    PROVE  UNCHANGED FF!vars
<1>1. FreeSpans' = FreeSpans
    BY DEF FreeSpans
<1>2. QED
    BY <1>1 DEF FF!vars

LEMMA StepRefines == ListInv /\ [Next]_vars => [FF!Next]_(FF!vars)
<1> SUFFICES ASSUME ListInv, [Next]_vars PROVE [FF!Next]_(FF!vars)
    OBVIOUS
<1>1. ASSUME NEW table \in Tables, DefineRegions(table) PROVE FF!Next
    BY <1>1, LayRefines DEF DefineRegions
<1>2. ASSUME NEW need \in Sizes, CallAlloc(need) PROVE [FF!Next]_(FF!vars)
    <2>1. CASE arena = {}
        <3>1. Lay(WholeArena)
            BY <1>2, <2>1 DEF CallAlloc
        <3>2. FF!Next
            BY <1>2, <2>1, <3>1, LayRefines DEF CallAlloc
        <3>3. QED
            BY <3>2
    <2>2. CASE arena # {}
        <3>1. /\ list' = list /\ arena' = arena /\ live' = live /\ granted' = granted
              /\ low' = low /\ room' = room /\ freeing' = freeing
            BY <1>2, <2>2 DEF CallAlloc
        <3>2. Blocks' = Blocks
            BY <3>1 DEF Blocks
        <3>3. UNCHANGED FF!vars
            BY <3>1, <3>2, QuietRefines
        <3>4. QED
            BY <3>3
    <2>3. QED
        BY <2>1, <2>2
<1>3. ASSUME NEW g \in live, CallFree(g) PROVE UNCHANGED FF!vars
    <2>1. Blocks' = Blocks /\ room' - freeing'.size = room - freeing.size
        BY <1>3, CallFreeInv
    <2>2. QED
        BY <1>3, <2>1, QuietRefines DEF CallFree
<1>4. CASE AllocHop \/ AllocNone \/ FreeHop \/ UNCHANGED vars
    <2>1. /\ list' = list /\ arena' = arena /\ live' = live /\ granted' = granted
          /\ low' = low /\ room' = room /\ freeing' = freeing
        BY <1>4 DEF AllocHop, AllocNone, FreeHop, vars
    <2>2. Blocks' = Blocks
        BY <2>1 DEF Blocks
    <2>3. UNCHANGED FF!vars
        BY <2>1, <2>2, QuietRefines
    <2>4. QED
        BY <2>3
<1>5. CASE AllocTake
    BY <1>5, TakeRefines
<1>6. CASE FreeInsert
    BY <1>6, InsertRefines
<1>7. QED
    BY <1>1, <1>2, <1>3, <1>4, <1>5, <1>6 DEF Next, Step

\* Walking the free list of headers, in any heap, grants the lowest block that
\* fits and joins exactly the free neighbours of a freed one: alloc's and
\* insert_into_free_list's loops implement FirstFit.
THEOREM WalksAreFirstFit == Spec => ImplementsFirstFit
<1>1. Init => FF!Init
    BY InitRefines
<1>2. ListInv /\ [Next]_vars => [FF!Next]_(FF!vars)
    BY StepRefines
<1>3. QED
    BY <1>1, <1>2, AlwaysInv, PTL DEF Spec, ImplementsFirstFit
=============================================================================
