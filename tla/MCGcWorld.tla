------------------------------ MODULE MCGcWorld ------------------------------
(* Small instances of GcWorld for TLC. *)
EXTENDS GcWorld, TLC

CONSTANTS t1, t2, b1, b2

ThreadSymmetry == Permutations(Threads) \cup Permutations(Blocks)
=============================================================================
