------------------------------- MODULE FreeList -------------------------------
(***************************************************************************)
(* The two walks of heap4.rs, one header read at a time.  FirstFit picks   *)
(* the lowest block that fits and the neighbours of a freed block out of a *)
(* set; alloc and insert_into_free_list find them by following a list.     *)
(* This module is the list and the walks, for any arena and any requests:  *)
(* that it implements FirstFit rests on the order of the list alone.       *)
(*                                                                         *)
(* A node stands for a header in the list.  pxEnd is after the last one;   *)
(* the end markers of the other regions are nodes of size 0.               *)
(***************************************************************************)
EXTENDS Integers, Sequences, FiniteSets

CONSTANTS
    Tables,             \* the region tables define_regions accepts
    WholeArena,         \* the table of Heap4::init
    Sizes,              \* block sizes, header included, that requests round to
    MINIMUM_BLOCK_SIZE, \* a remainder must be larger than this to be split off
    MaxGrants           \* bound: how many grants a behaviour makes

Span == [at : Nat, size : Nat \ {0}]
Node == [at : Nat, size : Nat]

End(s) == s.at + s.size
Cells(S) == UNION {s.at .. End(s) - 1 : s \in S}
Regions(table) == {table[i] : i \in 1..Len(table)}

\* Regions rise, with room for an end marker between any two.
IsTable(table) ==
    /\ table \in Seq(Span)
    /\ table # <<>>
    /\ \A i, j \in 1..Len(table) : i < j => End(table[i]) < table[j].at

ASSUME TablesAssumption == \A table \in Tables \cup {WholeArena} : IsTable(table)
ASSUME SizesAssumption == Sizes \subseteq Nat \ {0}
ASSUME MinimumAssumption == MINIMUM_BLOCK_SIZE \in Nat
ASSUME GrantsAssumption == MaxGrants \in Nat

VARIABLES
    list,    \* the nodes from start_next up to pxEnd
    end,     \* pxEnd
    arena,   \* the regions laid out
    live,    \* the granted blocks, each with its grant
    granted, \* Heap4::allocations
    room,    \* Heap4::free_bytes
    low,     \* Heap4::minimum_ever_free
    wanted,  \* the size the running alloc looks for; 0 when none runs
    freeing, \* the block the running free inserts; Nobody when none runs
    cursor   \* where in the list the running call is

vars == <<list, end, arena, live, granted, room, low, wanted, freeing, cursor>>

Grant == [at : Nat, size : Nat \ {0}, need : Nat \ {0}, id : Nat \ {0}]
Nobody == [at |-> 0, size |-> 0, need |-> 0, id |-> 0]

Idle == wanted = 0 /\ freeing = Nobody

Init ==
    /\ list = <<>>
    /\ end = 0
    /\ arena = {}
    /\ live = {}
    /\ granted = 0
    /\ room = 0
    /\ low = 0
    /\ wanted = 0
    /\ freeing = Nobody
    /\ cursor = 0

-----------------------------------------------------------------------------
(* Heap4::init and define_regions.                                         *)

\* Every region's block, then its marker; the last marker is pxEnd.
Laid(table) ==
    [i \in 1..2 * Len(table) - 1 |->
        IF i % 2 = 1 THEN table[(i + 1) \div 2]
        ELSE [at |-> End(table[i \div 2]), size |-> 0]]

Lay(table) ==
    /\ list' = Laid(table)
    /\ end' = End(table[Len(table)])
    /\ arena' = Regions(table)
    /\ room' = Cardinality(Cells(Regions(table)))
    /\ low' = room'

DefineRegions(table) ==
    /\ Idle
    /\ arena = {}
    /\ Lay(table)
    /\ UNCHANGED <<live, granted, wanted, freeing, cursor>>

-----------------------------------------------------------------------------
(* pvPortMalloc's walk.                                                    *)

\* A call lays the heap out if nobody did, is refused when the free bytes
\* together are not enough, and else starts to walk.
CallAlloc(need) ==
    /\ Idle
    /\ granted < MaxGrants
    /\ IF arena = {} THEN Lay(WholeArena) ELSE UNCHANGED <<list, end, arena, room, low>>
    /\ IF need <= room'
       THEN wanted' = need /\ cursor' = 1
       ELSE UNCHANGED <<wanted, cursor>>
    /\ UNCHANGED <<live, granted, freeing>>

Fits(node) == node.size >= wanted

\* Mutant: the walk does not move.
Advanced_Not == cursor
Advanced == cursor + 1

AllocHop ==
    /\ wanted > 0
    /\ cursor <= Len(list)
    /\ ~ Fits(list[cursor])
    /\ cursor' = Advanced
    /\ UNCHANGED <<list, end, arena, live, granted, room, low, wanted, freeing>>

\* The nodes from lo to hi give way to one node.
Spliced(lo, hi, node) ==
    [i \in 1..Len(list) - (hi - lo) |->
        IF i < lo THEN list[i] ELSE IF i = lo THEN node ELSE list[i + (hi - lo)]]
Unlinked(k) == [i \in 1..Len(list) - 1 |-> IF i < k THEN list[i] ELSE list[i + 1]]

\* Mutant: a remainder of exactly the minimum is split off.
Splits_Equal(node) == node.size - wanted >= MINIMUM_BLOCK_SIZE
Splits(node) == node.size - wanted > MINIMUM_BLOCK_SIZE
Remainder(node) == [at |-> node.at + wanted, size |-> node.size - wanted]
Taken(node) == IF Splits(node) THEN wanted ELSE node.size

\* The walk stopped on a block: its remainder takes its place in the list, or
\* nothing does.
AllocTake ==
    /\ wanted > 0
    /\ cursor <= Len(list)
    /\ LET chosen == list[cursor]
       IN  /\ Fits(chosen)
           /\ list' = IF Splits(chosen) THEN Spliced(cursor, cursor, Remainder(chosen))
                                        ELSE Unlinked(cursor)
           /\ live' = live \cup {[at |-> chosen.at, size |-> Taken(chosen),
                                  need |-> wanted, id |-> granted + 1]}
           /\ room' = room - Taken(chosen)
    /\ low' = IF room' < low THEN room' ELSE low
    /\ granted' = granted + 1
    /\ wanted' = 0
    /\ cursor' = 0
    /\ UNCHANGED <<end, arena, freeing>>

\* The walk reached pxEnd: None.
AllocNone ==
    /\ wanted > 0
    /\ cursor > Len(list)
    /\ wanted' = 0
    /\ cursor' = 0
    /\ UNCHANGED <<list, end, arena, live, granted, room, low, freeing>>

-----------------------------------------------------------------------------
(* vPortFree's walk.  The bytes are counted before the insert.             *)

CallFree(g) ==
    /\ Idle
    /\ live' = live \ {g}
    /\ freeing' = g
    /\ room' = room + g.size
    /\ cursor' = 1
    /\ UNCHANGED <<list, end, arena, granted, low, wanted>>

\* Mutant: pxEnd is not above the blocks.
Address_NoEnd(k) == IF k <= Len(list) THEN list[k].at ELSE 0
Address(k) == IF k <= Len(list) THEN list[k].at ELSE end

\* Mutant: the walk stops one block too early.
Before_Next(k) == Address(k) < freeing.at /\ Address(k + 1) < freeing.at
\* while next < insert
Before(k) == Address(k) < freeing.at

FreeHop ==
    /\ freeing # Nobody
    /\ Before(cursor)
    /\ cursor' = cursor + 1
    /\ UNCHANGED <<list, end, arena, live, granted, room, low, wanted, freeing>>

\* The block before ends where the freed one starts.
Joins == cursor > 1 /\ End(list[cursor - 1]) = freeing.at
Joined ==
    IF Joins THEN [at |-> list[cursor - 1].at, size |-> list[cursor - 1].size + freeing.size]
    ELSE [at |-> freeing.at, size |-> freeing.size]

\* What is now in hand ends where the next node starts, and that is not pxEnd.
\* The marker of a region absorbed so leaves the list.
Absorbs == cursor <= Len(list) /\ End(Joined) = list[cursor].at
Inserted ==
    [at |-> Joined.at,
     size |-> IF Absorbs THEN Joined.size + list[cursor].size ELSE Joined.size]

FreeInsert ==
    /\ freeing # Nobody
    /\ ~ Before(cursor)
    /\ list' = Spliced(IF Joins THEN cursor - 1 ELSE cursor,
                       IF Absorbs THEN cursor ELSE cursor - 1,
                       Inserted)
    /\ freeing' = Nobody
    /\ cursor' = 0
    /\ UNCHANGED <<end, arena, live, granted, room, low, wanted>>

\* One pass of the running call's loop, or what follows it.
Step == AllocHop \/ AllocTake \/ AllocNone \/ FreeHop \/ FreeInsert

Next ==
    \/ \E table \in Tables : DefineRegions(table)
    \/ \E need \in Sizes : CallAlloc(need)
    \/ \E g \in live : CallFree(g)
    \/ Step

\* A call is a loop without a wait, on the caller's own thread and with the
\* heap to itself (&mut self): once it runs, it takes its steps.  Nobody has to
\* make another call.
Spec == Init /\ [][Next]_vars /\ WF_vars(Step)

-----------------------------------------------------------------------------
(* What the walks implement.                                               *)

FreeSpans == {n \in {list[i] : i \in 1..Len(list)} : n.size > 0}
Blocks == live \cup ({freeing} \ {Nobody})

\* A free that runs has not happened yet: its block is still its caller's and
\* its bytes are not counted.
FF == INSTANCE FirstFit WITH
        Layouts <- {Regions(table) : table \in Tables},
        WholeArena <- Regions(WholeArena),
        free <- FreeSpans,
        live <- Blocks,
        room <- room - freeing.size

\* Walking the list grants the lowest block that fits, and finds exactly the
\* free neighbours of a freed block, whichever markers the list still has: every
\* call takes effect in one step, as FirstFit says, or leaves the blocks alone.
ImplementsFirstFit == FF!Init /\ [][FF!Next]_(FF!vars)

-----------------------------------------------------------------------------
(* Properties.                                                             *)

\* The list has headers, the grants are blocks, and a call's cursor is in the
\* list or at pxEnd.
TypeOK ==
    /\ list \in Seq(Node)
    /\ end \in Nat
    /\ arena \subseteq Span
    /\ live \subseteq Grant
    /\ granted \in 0..MaxGrants
    /\ room \in Int
    /\ low \in Int
    /\ wanted \in Sizes \cup {0}
    /\ freeing \in Grant \cup {Nobody}
    /\ cursor \in 0..Len(list) + 1

\* What both walks rely on and every relinking keeps: the nodes rise, end where
\* or before the next starts, and lie below pxEnd; and no header of the list lies
\* in a block somebody holds or is freeing.
ListOrdered ==
    /\ \A i, j \in 1..Len(list) :
        i < j => list[i].at < list[j].at /\ End(list[i]) <= list[j].at
    /\ \A i \in 1..Len(list) : End(list[i]) <= end /\ list[i].at < end
    /\ \A i \in 1..Len(list), b \in Blocks :
        \/ list[i].at < b.at /\ End(list[i]) <= b.at
        \/ End(b) <= list[i].at

\* Every call returns, whatever the list looks like when it starts: no walk is
\* sent round or past pxEnd.
CallsReturn == ~ Idle ~> Idle
=============================================================================
