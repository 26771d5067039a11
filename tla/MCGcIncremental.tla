-------------------------- MODULE MCGcIncremental --------------------------
(* Small heaps for TLC: blocks of two pages. *)
EXTENDS GcIncremental, TLC

CONSTANTS a1, a2, b1, pa, pb

MCPageOf == [o \in Objects |-> IF o = b1 THEN pb ELSE pa]

Symmetric == Permutations({a1, a2})
=============================================================================
