------------------------------- MODULE GcRoots -------------------------------
(***************************************************************************)
(* The root table of src/gc.c: parallel arrays gc_roots and gc_root_owners *)
(* indexed by a hash table whose buckets are doubly linked chains of array *)
(* indices (gc_root_buckets, gc_root_next, gc_root_previous). It replaced  *)
(* a linear scan and must behave like it (RootList).                       *)
(*                                                                         *)
(* Every operation runs under the global lock, so it is one step.          *)
(***************************************************************************)
EXTENDS Integers, Sequences

CONSTANTS
    Addrs, Owners,
    Hash,           \* the mixed address, before gc_root_bucket masks it
    FirstMax,       \* size of the first table (16 in the code)
    MaxRoots        \* bound: registrations

ASSUME HashAssumption == Hash \in [Addrs -> Nat] /\ FirstMax \in Nat \ {0}

VARIABLES
    gc_roots, gc_root_owners,
    gc_roots_count, gc_roots_max,
    gc_root_buckets, gc_root_next, gc_root_previous

roots_vars == <<gc_roots, gc_root_owners, gc_roots_count, gc_roots_max, gc_root_buckets, gc_root_next, gc_root_previous>>

Nil == -1
Slots == 0 .. gc_roots_max - 1
Used == 0 .. gc_roots_count - 1

RootsInit ==
    /\ gc_roots = <<>> /\ gc_root_owners = <<>>
    /\ gc_roots_count = 0 /\ gc_roots_max = 0
    /\ gc_root_buckets = <<>> /\ gc_root_next = <<>> /\ gc_root_previous = <<>>

-----------------------------------------------------------------------------
(* The index, as a record of its three arrays *)

Index == [buckets |-> gc_root_buckets, next |-> gc_root_next, previous |-> gc_root_previous]

SetIndex(x) ==
    /\ gc_root_buckets' = x.buckets
    /\ gc_root_next' = x.next
    /\ gc_root_previous' = x.previous

gc_root_bucket(a, max) == Hash[a] % (2 * max)

\* Array update that ignores the index Nil.
Put(f, i, v) == IF i = Nil THEN f ELSE [f EXCEPT ![i] = v]

\* gc_root_link: entry i of address a becomes the head of its chain.
gc_root_link(x, i, a, max) ==
    LET b == gc_root_bucket(a, max)
        head == x.buckets[b]
    IN [buckets  |-> [x.buckets EXCEPT ![b] = i],
        next     |-> [x.next EXCEPT ![i] = head],
        previous |-> Put([x.previous EXCEPT ![i] = Nil], head, i)]

\* Entry i of address a leaves its chain.
gc_root_unlink(x, i, a, max) ==
    LET previous == x.previous[i]
        next == x.next[i]
    IN [buckets  |-> IF previous = Nil THEN [x.buckets EXCEPT ![gc_root_bucket(a, max)] = next]
                     ELSE x.buckets,
        next     |-> Put(x.next, previous, next),
        previous |-> Put(x.previous, next, previous)]

\* Mutant: the neighbours of a moved entry still point at its old place.
MoveForgetsNeighbours(x, found, last, a, max) ==
    [x EXCEPT !.next[found] = x.next[last], !.previous[found] = x.previous[last]]

\* The last entry, of address a, moves to the hole at `found`.
Move(x, found, last, a, max) ==
    LET previous == x.previous[last]
        next == x.next[last]
    IN [buckets  |-> IF previous = Nil THEN [x.buckets EXCEPT ![gc_root_bucket(a, max)] = found]
                     ELSE x.buckets,
        next     |-> Put([x.next EXCEPT ![found] = next], previous, found),
        previous |-> Put([x.previous EXCEPT ![found] = previous], next, found)]

Greatest(S) == IF S = {} THEN Nil ELSE CHOOSE i \in S : \A j \in S : j <= i
Least(S) == IF S = {} THEN Nil ELSE CHOOSE i \in S : \A j \in S : i <= j

\* A new index of size max with the first n entries of the table linked in, in
\* turn: each becomes the head of its chain, before the earlier ones.
Relinked(roots, n, max) ==
    LET In(b) == {i \in 0 .. n - 1 : gc_root_bucket(roots[i], max) = b}
        With(i) == In(gc_root_bucket(roots[i], max))
    IN [buckets  |-> [b \in 0 .. 2 * max - 1 |-> Greatest(In(b))],
        next     |-> [i \in 0 .. max - 1 |->
                        IF i < n THEN Greatest({j \in With(i) : j < i}) ELSE Nil],
        previous |-> [i \in 0 .. max - 1 |->
                        IF i < n THEN Least({j \in With(i) : j > i}) ELSE Nil]]

\* The entries of the chain that starts at i: the least set that has i and, with
\* an entry, the one gc_root_next gives.
Chain(i) ==
    {j \in Slots : \A S \in SUBSET Slots :
        /\ i # Nil => i \in S
        /\ \A k \in S : gc_root_next[k] # Nil => gc_root_next[k] \in S
        => j \in S}

-----------------------------------------------------------------------------
\* The array f grown to max entries; what the new ones contain is not used.
Grown(f, max, unused) == [i \in 0 .. max - 1 |-> IF i \in Used THEN f[i] ELSE unused]

hl_add_root_owner(a, w) ==
    LET full == gc_roots_count = gc_roots_max
        max == IF ~full THEN gc_roots_max
               ELSE IF gc_roots_max = 0 THEN FirstMax ELSE 2 * gc_roots_max
        index == IF full THEN Relinked(gc_roots, gc_roots_count, max) ELSE Index
        n == gc_roots_count
    IN
    /\ n < MaxRoots
    /\ gc_roots' = [Grown(gc_roots, max, a) EXCEPT ![n] = a]
    /\ gc_root_owners' = [Grown(gc_root_owners, max, w) EXCEPT ![n] = w]
    /\ SetIndex(gc_root_link(index, n, a, max))
    /\ gc_roots_count' = n + 1
    /\ gc_roots_max' = max

\* The registrations of a on the chain of its bucket.
Matches(a) ==
    IF gc_roots_count = 0 THEN {}
    ELSE {i \in Chain(gc_root_buckets[gc_root_bucket(a, gc_roots_max)]) : gc_roots[i] = a}

\* Mutant: the first registration on the chain is taken.
FoundFirst(a) == {i \in Matches(a) : Matches(a) \subseteq Chain(i)}

\* The index hl_remove_root finds, as a set of at most one: the greatest one.
Found(a) == {i \in Matches(a) : \A j \in Matches(a) : j <= i}

hl_remove_root(a) ==
    \E found \in Found(a) :
        LET last == gc_roots_count - 1
            index == gc_root_unlink(Index, found, a, gc_roots_max)
        IN
        /\ gc_roots_count' = last
        /\ gc_roots' = [gc_roots EXCEPT ![found] = gc_roots[last]]
        /\ gc_root_owners' = [gc_root_owners EXCEPT ![found] = gc_root_owners[last]]
        /\ SetIndex(IF found = last THEN index
                    ELSE Move(index, found, last, gc_roots[last], gc_roots_max))
        /\ UNCHANGED gc_roots_max

RootsNext == \E a \in Addrs : hl_remove_root(a) \/ \E w \in Owners : hl_add_root_owner(a, w)

RootsSpec == RootsInit /\ [][RootsNext]_roots_vars

-----------------------------------------------------------------------------
(* Properties *)

\* The index is exact: the entries from a bucket on, followed by gc_root_next,
\* are those of the addresses that hash to it, and gc_root_previous goes back.
IndexExact ==
    /\ \A b \in DOMAIN gc_root_buckets :
         Chain(gc_root_buckets[b]) = {i \in Used : gc_root_bucket(gc_roots[i], gc_roots_max) = b}
    /\ \A i \in Used :
         /\ gc_root_next[i] # Nil => gc_root_previous[gc_root_next[i]] = i
         /\ gc_root_previous[i] = Nil => gc_root_buckets[gc_root_bucket(gc_roots[i], gc_roots_max)] = i

Registry == INSTANCE RootList WITH
    list <- [i \in 1 .. gc_roots_count |-> [root |-> gc_roots[i - 1], owner |-> gc_root_owners[i - 1]]]

\* "Preserve the old reverse-array lookup for duplicate registrations": the
\* indexed table does what the linear scan did, duplicates and owners included.
SameAsScan == Registry!Spec
=============================================================================
