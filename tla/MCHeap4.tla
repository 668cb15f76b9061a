------------------------------- MODULE MCHeap4 -------------------------------
(***************************************************************************)
(* Instances of Heap4 for TLC.  The region tables are written here because *)
(* a cfg cannot spell records.                                             *)
(***************************************************************************)
EXTENDS Heap4

Region(start, size) == [start |-> start, size |-> size]

\* heap_4: nobody defines regions.
NoTables == {}

\* heap_5 over a 72-byte arena: two regions with a gap, two that abut, two
\* whose ends are not aligned; and tables that are refused, with a region
\* already written: out of order, the second too small for its end marker, the
\* second past the arena.  And the empty table.
Gap == <<Region(0, 32), Region(40, 32)>>
Abutting == <<Region(0, 32), Region(32, 40)>>
Ragged == <<Region(3, 30), Region(34, 37)>>
OutOfOrder == <<Region(32, 40), Region(0, 24)>>
TooSmall == <<Region(0, 32), Region(40, 8)>>
PastArena == <<Region(8, 32), Region(48, 40)>>

RegionTables == {Gap, Abutting, Ragged, OutOfOrder, TooSmall, PastArena, <<>>}
\* heap_5 with 16-byte headers in a 136-byte arena: two regions that start and
\* end off the alignment; three, each right behind the end marker of the one
\* before, the first two of only 24 bytes of block.
Uneven == <<Region(4, 47), Region(51, 79)>>
Three == <<Region(4, 44), Region(48, 40), Region(88, 48)>>

WideTables == {Uneven, Three}
AbuttingOnly == {Abutting}
GapOnly == {Gap}

\* Callers that take and give back one small block until Rounds of them were
\* granted, so that generations come up to the sizes of blocks, and then do as
\* they like with at most AtOnce blocks.  Calls that change nothing are left out.
Rounds == 22
AtOnce == 2
ComeToSizes ==
    /\ heap' # heap
    /\ IF heap.allocations < Rounds
       THEN /\ Cardinality(held') <= 1
            /\ \A g \in held' : g.wanted = 1 /\ g.fill = NotFilled
       ELSE Cardinality(held') <= AtOnce
SpecAfterRounds == Init /\ [][Next /\ ComeToSizes]_vars
=============================================================================
