----------------------------- MODULE MCFirstFit -----------------------------
(***************************************************************************)
(* FirstFit on an arena of cells: one region, and two regions with a gap.  *)
(* One cell stands for one alignment unit (8 bytes) of the arena.          *)
(***************************************************************************)
EXTENDS FirstFit

MC_WholeArena == {[at |-> 0, size |-> 9]}
MC_Layouts ==
    { {[at |-> 1, size |-> 5], [at |-> 7, size |-> 4]},
      {[at |-> 0, size |-> 3], [at |-> 4, size |-> 3], [at |-> 9, size |-> 2]} }
=============================================================================
