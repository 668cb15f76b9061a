------------------------------ MODULE MCFreeList ------------------------------
(***************************************************************************)
(* FreeList on an arena of cells, laid out whole, in two regions, and in   *)
(* three that leave only their markers between them.                       *)
(***************************************************************************)
EXTENDS FreeList

Region(at, size) == [at |-> at, size |-> size]

MC_WholeArena == <<Region(0, 9)>>
MC_Tables ==
    { <<Region(1, 5), Region(7, 4)>>,
      <<Region(0, 3), Region(4, 3), Region(9, 2)>> }
=============================================================================
