---------------------------- MODULE MCStructures ----------------------------
(***************************************************************************)
(* Three structures for TLC: the root table, the free list of an allocator *)
(* page, and the chunk pool of the profiler. They share no state and no    *)
(* step of one reads another, so their interleavings show nothing that     *)
(* each of them does not show alone: a behaviour is one of one structure.  *)
(***************************************************************************)
EXTENDS GcRoots, GcFreeList, ProfPool, TLC

CONSTANTS r1, r2, r3, NoOwner, w1, p1, p2, p3

VARIABLE part       \* the structure whose behaviour this is

\* Three addresses of which two always collide.
MCHash == (r1 :> 1) @@ (r2 :> 1) @@ (r3 :> 4)

\* Processes are interchangeable.
Symmetry == Permutations(Procs)

\* The pages that stand by while another structure moves are of one kind.
StructuresInit ==
    /\ RootsInit /\ PageInit /\ PoolInit
    /\ part \in {"roots", "page", "pool"}
    /\ part # "page" => ~var

StructuresNext ==
    \/ part = "roots" /\ RootsNext /\ UNCHANGED <<page_vars, pool_vars, part>>
    \/ part = "page" /\ PageNext /\ UNCHANGED <<roots_vars, pool_vars, part>>
    \/ part = "pool" /\ PoolNext /\ UNCHANGED <<roots_vars, page_vars, part>>

StructuresSpec == StructuresInit /\ [][StructuresNext]_<<roots_vars, page_vars, pool_vars, part>>

-----------------------------------------------------------------------------
(* Two loops against the definitions that stand for them *)

\* The loop of hl_add_root_owner that links the entries of a grown table.
RECURSIVE Linked(_, _, _)
Linked(roots, n, max) ==
    IF n = 0
      THEN [buckets  |-> [b \in 0 .. 2 * max - 1 |-> Nil],
            next     |-> [i \in 0 .. max - 1 |-> Nil],
            previous |-> [i \in 0 .. max - 1 |-> Nil]]
      ELSE gc_root_link(Linked(roots, n - 1, max), n - 1, roots[n - 1], max)

\* Relinked is what the loop computes, for every table that can be grown here.
ASSUME RelinkedAssumption ==
    \A max \in 1 .. MaxRoots : \A n \in 0 .. max :
        \A roots \in [0 .. max - 1 -> Addrs] : Relinked(roots, n, max) = Linked(roots, n, max)

\* The loop of gc_allocator_get_block_interior: the start of the block that has
\* block number `start`, searched from b down, or -1.
RECURSIVE Search(_, _, _)
Search(sz, b, start) ==
    IF sz[b] = 0 THEN IF b = FirstBlock THEN -1 ELSE Search(sz, b - 1, start)
    ELSE IF start - b >= sz[b] THEN -1 ELSE b

\* Interior is what that loop returns.
ASSUME InteriorAssumption ==
    \A sz \in [Bids -> 0 .. MaxRequest] : \A b \in Bids :
        Interior(sz, b) = {Search(sz, b, b)} \ {-1}
=============================================================================
