----------------------------- MODULE GcFreeList -----------------------------
(***************************************************************************)
(* Free lists of an allocator page (src/allocator.c): runs of free blocks  *)
(* kept sorted by position, allocation from them (gc_alloc_fixed_run and   *)
(* gc_alloc_var), the lazy sweep that rebuilds them from the mark bits     *)
(* (flush_free_list), and the lookup of a block from an address inside it. *)
(*                                                                         *)
(* One page of block numbers FirstBlock .. MaxBlocks - 1. A page of a      *)
(* fixed partition has no sizes; on a variable one a block spans sizes[b]  *)
(* block numbers. The sweep is one step per turn of its loop; it runs to   *)
(* its end before anything else happens to the page, whose lock its caller *)
(* holds.                                                                  *)
(***************************************************************************)
EXTENDS Integers, Sequences

CONSTANTS
    FirstBlock,     \* blocks below hold the page's own table of sizes
    MaxBlocks,
    MaxRequest      \* bound: block numbers of one request

ASSUME PageAssumption ==
    /\ FirstBlock \in Nat /\ MaxBlocks \in Nat /\ FirstBlock < MaxBlocks
    /\ MaxRequest \in Nat

VARIABLES
    var,            \* TRUE: a page of a variable partition; FALSE: of a fixed one
    finalizer,      \* TRUE: a page of blocks with finalizers, always of a variable partition
    sizes,          \* sizes[b], 0 where no block starts
    bmp,            \* mark bits
    runs,           \* free.data: sequence of [pos, count]
    current,        \* free.current, counted from 1
    need_flush,
    use,            \* use[b]: length of the block at b that the program holds, or 0
    \* flush_free_list
    sweeping,       \* its loop is under way
    bid,
    new_fl,         \* the list it builds; cur_pos is its last run
    reuse           \* the run of the old list to be taken over next

page == <<sizes, runs, current, need_flush>>
sweep == <<sweeping, bid, new_fl, reuse>>
kind == <<var, finalizer>>
page_vars == <<kind, page, bmp, use, sweep>>

Bids == FirstBlock .. MaxBlocks - 1
Cells(b, n) == b .. b + n - 1
End(run) == run.pos + run.count
Runs == [pos : FirstBlock .. MaxBlocks, count : 0 .. MaxBlocks]

PageTypeOK ==
    /\ var \in BOOLEAN /\ finalizer \in BOOLEAN
    /\ sizes \in [Bids -> 0 .. MaxRequest]
    /\ bmp \subseteq Bids
    /\ runs \in Seq(Runs)
    /\ current \in 1 .. Len(runs) + 1
    /\ need_flush \in BOOLEAN
    /\ use \in [Bids -> 0 .. MaxRequest]
    /\ sweeping \in BOOLEAN
    /\ bid \in FirstBlock .. MaxBlocks
    /\ new_fl \in Seq(Runs)
    /\ reuse \in 1 .. Len(runs) + 1

\* gc_allocator_new_page: one run over the whole page.
PageInit ==
    /\ var \in BOOLEAN /\ finalizer \in BOOLEAN /\ (finalizer => var)
    /\ sizes = [b \in Bids |-> 0]
    /\ bmp = {}
    /\ runs = <<[pos |-> FirstBlock, count |-> MaxBlocks - FirstBlock]>>
    /\ current = 1
    /\ need_flush = FALSE
    /\ use = [b \in Bids |-> 0]
    /\ sweeping = FALSE /\ bid = FirstBlock /\ new_fl = <<>> /\ reuse = 1

-----------------------------------------------------------------------------
(* flush_free_list: called by an allocation that meets a page to be flushed, *)
(* which then goes on with gc_alloc_fixed_run or gc_alloc_var below or passes *)
(* the page over, and by gc_free_memory.                                     *)

flush_free_list ==
    /\ need_flush /\ ~sweeping
    /\ sweeping' = TRUE
    /\ bid' = FirstBlock /\ new_fl' = <<>> /\ reuse' = current
    /\ UNCHANGED <<kind, page, bmp, use>>

\* The free list fl with n more blocks from pos on, in a new run or in the last.
AddRun(fl, pos, n) ==
    IF fl # <<>> /\ End(fl[Len(fl)]) = pos
      THEN [fl EXCEPT ![Len(fl)].count = @ + n]
      ELSE Append(fl, [pos |-> pos, count |-> n])

\* Mutant: the sweep trusts the mark bits alone.
NoReuse == FALSE

\* bid = next_bid: a run of the old list begins here.
AtReuse == reuse <= Len(runs) /\ runs[reuse].pos = bid

\* Take the run over, whatever the mark bits say of its blocks.
SweepReuse ==
    /\ sweeping /\ bid < MaxBlocks /\ AtReuse
    /\ new_fl' = AddRun(new_fl, bid, runs[reuse].count)
    /\ bid' = End(new_fl'[Len(new_fl')])
    /\ reuse' = reuse + 1
    /\ UNCHANGED <<kind, page, bmp, use, sweeping>>

\* How far the sweep goes on from b.
Stride(b) == IF var /\ sizes[b] # 0 THEN sizes[b] ELSE 1

\* Mutant: the sizes of reclaimed blocks stay.
KeptSizes(b) == sizes

Reclaimed(b) == IF var THEN [sizes EXCEPT ![b] = 0] ELSE sizes

\* A block that is not in the old list: keep it if it is marked, else reclaim it.
SweepBlock ==
    /\ sweeping /\ bid < MaxBlocks /\ ~AtReuse
    /\ IF bid \in bmp
         THEN UNCHANGED <<new_fl, sizes>>
         ELSE /\ new_fl' = AddRun(new_fl, bid, Stride(bid))
              /\ sizes' = Reclaimed(bid)
    /\ bid' = bid + Stride(bid)
    /\ UNCHANGED <<kind, bmp, runs, current, need_flush, use, sweeping, reuse>>

SweepEnd ==
    /\ sweeping /\ bid >= MaxBlocks
    /\ runs' = new_fl /\ current' = 1
    /\ need_flush' = FALSE
    /\ sweeping' = FALSE /\ bid' = FirstBlock /\ new_fl' = <<>> /\ reuse' = 1
    /\ UNCHANGED <<kind, sizes, bmp, use>>

-----------------------------------------------------------------------------
(* Allocation *)

\* Mutant: the run gets shorter but does not move on.
TakenInPlace(k, n) == [runs EXCEPT ![k].count = @ - n]

Taken(k, n) == [runs EXCEPT ![k] = [pos |-> @.pos + n, count |-> @.count - n]]

\* Mutant: the cursor stays at a run that is used up.
TakeRunStay(k, n) ==
    /\ runs' = Taken(k, n)
    /\ current' = current

\* The list after n blocks of its run k are taken. The cursor moves by one
\* when run k is used up, whichever run that is.
TakeRun(k, n) ==
    /\ runs' = Taken(k, n)
    /\ current' = current + (IF runs[k].count = n THEN 1 ELSE 0)

\* gc_alloc_fixed_run: up to `want` blocks of the current run.
gc_alloc_fixed_run(want) ==
    LET run == runs[current]
        taken == IF run.count < want THEN run.count ELSE want
    IN
    /\ ~var /\ ~need_flush
    /\ current <= Len(runs)
    /\ TakeRun(current, taken)
    /\ use' = [b \in Bids |-> IF b \in Cells(run.pos, taken) THEN 1 ELSE use[b]]
    /\ UNCHANGED <<kind, sizes, bmp, need_flush, sweep>>

\* Mutant: the first run is taken, long enough or not.
FitsAny(n) == current .. Len(runs)

Fits(n) == {k \in current .. Len(runs) : runs[k].count >= n}

\* gc_alloc_var: the first run that is long enough.
gc_alloc_var(n) ==
    \E k \in Fits(n) : LET b == runs[k].pos IN
        /\ var /\ ~need_flush
        /\ \A j \in Fits(n) : k <= j
        /\ TakeRun(k, n)
        /\ bmp' = bmp \cup {b}
        /\ sizes' = [c \in Bids |-> IF c = b THEN n ELSE IF c \in Cells(b, n) THEN 0 ELSE sizes[c]]
        /\ use' = [use EXCEPT ![b] = n]
        /\ UNCHANGED <<kind, need_flush, sweep>>

\* The sizes after a mark: on a page with finalizers the blocks that are not marked
\* are finalized at once and start nowhere from then on, long before the sweep.
gc_call_finalizers(marks) ==
    IF finalizer THEN [b \in Bids |-> IF b \in marks THEN sizes[b] ELSE 0] ELSE sizes

\* A collection. The program keeps some of its blocks; the mark bits show them
\* and whatever a stray word looks like a pointer to (gc_allocator_get_block_id).
gc_mark ==
    /\ ~sweeping
    /\ \E keep \in SUBSET {b \in Bids : use[b] # 0} :
        \E stray \in SUBSET {b \in Bids : ~var \/ sizes[b] # 0} :
          /\ bmp' = keep \cup stray
          /\ sizes' = gc_call_finalizers(keep \cup stray)
          /\ use' = [b \in Bids |-> IF b \in keep THEN use[b] ELSE 0]
    /\ need_flush' = TRUE
    /\ UNCHANGED <<kind, runs, current, sweep>>

PageNext ==
    \/ \E n \in 1 .. MaxRequest : gc_alloc_fixed_run(n) \/ gc_alloc_var(n)
    \/ flush_free_list \/ SweepReuse \/ SweepBlock \/ SweepEnd
    \/ gc_mark

PageSpec == PageInit /\ [][PageNext]_page_vars

-----------------------------------------------------------------------------
(* Properties *)

Covered(fl, from) == UNION {Cells(fl[k].pos, fl[k].count) : k \in from .. Len(fl)}
InUse == UNION {Cells(b, use[b]) : b \in Bids}

\* What can be handed out is not in use: no run, before, during or after the sweep,
\* covers a block the program holds, no two runs overlap and all lie in the page.
RunsFree ==
    /\ Covered(runs, current) \cap InUse = {}
    /\ \A k \in current .. Len(runs) - 1 : End(runs[k]) <= runs[k + 1].pos
    /\ \A k \in current .. Len(runs) : End(runs[k]) <= MaxBlocks

\* The sweep against its definition: what it makes available are the blocks that
\* were available before and those no marked block extends over, each of them when
\* the loop has passed it.
Dead == {b \in Bids : \A s \in bmp : b \notin Cells(s, IF var THEN sizes[s] ELSE 1)}
SweepExact ==
    sweeping => Covered(new_fl, 1) = {b \in Covered(runs, current) \cup Dead : b < bid}

\* "GC took an empty or oversized run from a free list" is never the case: on a
\* page of a fixed partition a run the cursor stands at has blocks.
RunNotEmpty == ~var /\ current <= Len(runs) => runs[current].count > 0

\* gc_allocator_get_block_interior on block number b with the sizes sz: the block
\* that has it, if any. The search goes down to the nearest start of a block.
NearestStart(sz, b) == {s \in FirstBlock .. b : sz[s] # 0 /\ \A c \in s + 1 .. b : sz[c] = 0}
Interior(sz, b) == {s \in NearestStart(sz, b) : b - s < sz[s]}

\* Conservative marking finds the blocks in use, from every address inside them,
\* and nothing in the memory that is on the free list.
LookupExact ==
    var => \A b \in Bids :
        /\ \A s \in Bids : b \in Cells(s, use[s]) => Interior(sizes, b) = {s}
        /\ b \in Covered(runs, current) => Interior(sizes, b) = {}
=============================================================================
