------------------------------- MODULE MCPool -------------------------------
(***************************************************************************)
(* Pool on three blocks, with a Slot of a larger pool.                     *)
(***************************************************************************)
EXTENDS Pool

MC_Foreign == {[index |-> BLOCKS, generation |-> 0]}
=============================================================================
