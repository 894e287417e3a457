---------------------------- MODULE MCTupleSort ----------------------------
(* Up to five modules with zero to three imports. *)
EXTENDS TupleSort

MCCounts == 0 .. 3
=============================================================================
