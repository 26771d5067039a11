----------------------------- MODULE ChunkStack -----------------------------
(***************************************************************************)
(* What the pool of src/prof.c promises: a stack of free chunks, from      *)
(* which one step takes the top and to which one step returns a chunk that *)
(* is out. ProfRecorder uses the pool in this form.                        *)
(***************************************************************************)
EXTENDS Naturals, Sequences

CONSTANTS ChunkCount

Chunks == 0 .. ChunkCount - 1

VARIABLES
    free,   \* the free chunks, the last one returned first
    out     \* the chunks taken from the pool

Init == free = [i \in 1 .. ChunkCount |-> i - 1] /\ out = {}

Pop ==
    /\ free # <<>>
    /\ free' = Tail(free) /\ out' = out \cup {Head(free)}

Push == \E c \in out :
    /\ free' = <<c>> \o free /\ out' = out \ {c}

Next == Pop \/ Push

Spec == Init /\ [][Next]_<<free, out>>
=============================================================================
