---------------------------- MODULE GcIncremental ----------------------------
(***************************************************************************)
(* Incremental marking (src/gc_incremental.c) with write discovery         *)
(* (src/gc_write_tracking.c), the lazy sweep and the deferred release of   *)
(* empty pages (src/allocator.c), and the reuse of retired owner classes   *)
(* (src/gc.c).                                                             *)
(*                                                                         *)
(* A pause of the collector is a run of steps with pc # "run"; mutators    *)
(* act only when pc = "run" (GcWorld shows that the world is stopped).     *)
(* Deadlines are nondeterministic: a pause may end between any two units   *)
(* of work that the code can be interrupted between.                       *)
(***************************************************************************)
EXTENDS Integers, FiniteSets

CONSTANTS
    Objects,        \* blocks of the heap
    Pages,          \* allocator pages
    pageOf,         \* the page of each block
    NFields,        \* words of a block
    Null,           \* no block
    OwnedPages,     \* pages of an owner class (hl_gc_owner_release)
    Kernel,         \* TRUE: Linux soft-dirty backend; FALSE: software backend
    ReuseInCycle    \* TRUE: a retired class may be reused during a cycle

ASSUME PageAssumption == pageOf \in [Objects -> Pages] /\ OwnedPages \subseteq Pages
ASSUME FieldAssumption == NFields \in Nat /\ Null \notin Objects
ASSUME SwitchAssumption == Kernel \in BOOLEAN /\ ReuseInCycle \in BOOLEAN

VARIABLES
    allocated,      \* blocks handed out and not reclaimed
    fields,         \* fields[o][i]: word i of block o
    roots,          \* blocks that stacks, registers and root addresses show
    marked,         \* bmp bits
    needFlush,      \* pages whose lazy sweep is pending (alloc.need_flush)
    prepared,       \* pages with the incremental_epoch of the cycle under way
    prepareTodo,    \* pages gc_inc_prepare_slice has yet to visit
    active, preparing, discovering, reclaiming,
    captured,       \* a complete capture was taken in this pause (a local)
    queue,          \* global_mark_stack
    block, cursor,  \* gc_inc_block and the index of gc_inc_cursor in it
    incoming,       \* pages on gc_software_dirty_head
    batch,          \* pages on gc_dirty_batch_head
    rescanTodo,     \* blocks of gc_inc_rescan_cursor from gc_inc_rescan_bid on
    kdirty,         \* pages with the kernel's soft-dirty bit set in this cycle
    walking, walkTodo, spanned, \* progress of gc_inc_collect_dirty
    sweepTodo,      \* pages gc_empty_sweep_slice has yet to visit
    retired,        \* pages of retired owner classes
    supported,      \* gc_write_tracking.supported()
    pc

heapVars == <<allocated, fields, roots>>
pageVars == <<needFlush, prepared, prepareTodo, sweepTodo, retired>>
phaseVars == <<active, preparing, discovering, reclaiming>>
traceVars == <<queue, block, cursor, rescanTodo>>
dirtyVars == <<incoming, batch, kdirty>>
walkVars == <<walking, walkTodo, spanned>>
vars == <<heapVars, marked, pageVars, phaseVars, captured, traceVars, dirtyVars, walkVars, supported, pc>>

\* The heap as the program sees it: references, reachability, reclaiming.
Heap == INSTANCE GcHeap

Fields == Heap!Fields
Reach == Heap!Reach
Reclaim(dead, o) == Heap!Reclaim(dead, o)
BlocksOf(p) == {o \in Objects : pageOf[o] = p}

TypeOK ==
    /\ allocated \subseteq Objects
    /\ fields \in [Objects -> [Fields -> Objects \cup {Null}]]
    /\ roots \subseteq Objects
    /\ marked \subseteq Objects
    /\ needFlush \subseteq Pages /\ prepared \subseteq Pages /\ prepareTodo \subseteq Pages
    /\ sweepTodo \subseteq Pages /\ retired \subseteq Pages
    /\ active \in BOOLEAN /\ preparing \in BOOLEAN /\ discovering \in BOOLEAN
    /\ reclaiming \in BOOLEAN /\ captured \in BOOLEAN /\ supported \in BOOLEAN
    /\ queue \subseteq Objects
    /\ block \in Objects \cup {Null} /\ cursor \in 1 .. NFields + 1
    /\ rescanTodo \subseteq Objects
    /\ incoming \subseteq Pages /\ batch \subseteq Pages /\ kdirty \subseteq Pages
    /\ walking \in BOOLEAN /\ walkTodo \subseteq Pages /\ spanned \in BOOLEAN
    /\ pc \in {"run", "prepare", "capture", "roots", "rescan", "drain", "finish", "sweep"}

Init ==
    /\ allocated = {} /\ fields = [o \in Objects |-> Heap!Empty] /\ roots = {}
    /\ marked = {}
    /\ needFlush = {} /\ prepared = {} /\ prepareTodo = {} /\ sweepTodo = {} /\ retired = {}
    /\ active = FALSE /\ preparing = FALSE /\ discovering = FALSE /\ reclaiming = FALSE
    /\ captured = FALSE /\ supported = TRUE
    /\ queue = {} /\ block = Null /\ cursor = 1 /\ rescanTodo = {}
    /\ incoming = {} /\ batch = {} /\ kdirty = {}
    /\ walking = FALSE /\ walkTodo = {} /\ spanned = FALSE
    /\ pc = "run"

-----------------------------------------------------------------------------
(* Mutators *)

\* gc_dirty_enqueue_source: one node per page over both queues (software_dirty).
Enqueued(p) == IF p \in incoming \cup batch THEN incoming ELSE incoming \cup {p}

\* The kernel sees every store. The bits set between cycles are not modelled:
\* gc_inc_linux_begin clears them before anything reads them.
SoftDirty(p) == IF Kernel /\ active THEN kdirty \cup {p} ELSE kdirty

\* A store of a block's word followed by hl_gc_write_barrier.
Write(o, i, v) ==
    /\ pc = "run"
    /\ Heap!Write(o, i, v)
    /\ incoming' = IF active THEN Enqueued(pageOf[o]) ELSE incoming
    /\ kdirty' = SoftDirty(pageOf[o])
    /\ UNCHANGED <<marked, pageVars, phaseVars, captured, traceVars, batch, walkVars, supported, pc>>

\* A native store without a barrier: only the kernel sees it.
NativeWrite(o, i, v) ==
    /\ Kernel
    /\ pc = "run"
    /\ Heap!Write(o, i, v)
    /\ kdirty' = SoftDirty(pageOf[o])
    /\ UNCHANGED <<marked, pageVars, phaseVars, captured, traceVars, incoming, batch, walkVars, supported, pc>>

Load(o, i) ==
    /\ pc = "run"
    /\ Heap!Load(o, i)
    /\ UNCHANGED <<marked, pageVars, phaseVars, captured, traceVars, dirtyVars, walkVars, supported, pc>>

Drop(o) ==
    /\ pc = "run"
    /\ Heap!Drop(o)
    /\ UNCHANGED <<marked, pageVars, phaseVars, captured, traceVars, dirtyVars, walkVars, supported, pc>>

\* Mutant: a page is swept again with marks that a flush has already used.
SweptAgain(p) == BlocksOf(p) \ marked

\* flush_free_list: the blocks of the page that a finished mark left unmarked.
Swept(p) == IF p \in needFlush THEN BlocksOf(p) \ marked ELSE {}

\* A block is on its page's free list once the page is flushed.
Available(o) == pageOf[o] \notin retired /\ (o \notin allocated \/ o \in Swept(pageOf[o]))

\* Mutant: an allocation prepares a page that is prepared already.
MarksAfterSecondPrepare(p) == marked \ BlocksOf(p)

\* gc_inc_prepare_page on p: flush with the old marks, then empty bitmaps.
MarksAfterPrepare(p) == IF p \in prepared THEN marked ELSE marked \ BlocksOf(p)

\* gc_alloc_gen_owner_full: during a cycle the block is born marked, in a page
\* that is prepared on demand (gc_incremental_allocated). Outside a cycle
\* gc_alloc_var sets the mark bit and gc_alloc_fixed does not.
AllocFull(o) ==
    LET p == pageOf[o] IN
    /\ pc = "run"
    /\ Available(o)
    /\ Reclaim(Swept(p), o)
    /\ needFlush' = needFlush \ {p}
    /\ IF active
         THEN /\ marked' = MarksAfterPrepare(p) \cup {o}
              /\ prepared' = prepared \cup {p}
         ELSE marked' \in {marked, marked \cup {o}} /\ UNCHANGED prepared
    /\ kdirty' = SoftDirty(p)
    /\ UNCHANGED <<prepareTodo, sweepTodo, retired, phaseVars, captured, traceVars, incoming, batch, walkVars, supported, pc>>

\* gc_tlab_alloc, reached when gc_tlab_thread saw no active cycle. That test comes
\* before the wait for the lock, and any number of pauses may pass in between:
\* it says nothing of the state in which the thread gets the lock and a run of
\* blocks. The block handed out is unmarked, even if a cycle is active now.
TlabAlloc(o) ==
    LET p == pageOf[o] IN
    /\ pc = "run"
    /\ Available(o)
    /\ Reclaim(Swept(p), o)
    /\ needFlush' = needFlush \ {p}
    /\ kdirty' = SoftDirty(p)
    /\ UNCHANGED <<marked, prepared, prepareTodo, sweepTodo, retired, phaseVars, captured, traceVars, incoming, batch, walkVars, supported, pc>>

-----------------------------------------------------------------------------
(* Pauses of gc_incremental_step_unbudgeted_locked *)

\* gc_write_tracking.begin, then the first preparation slice.
StepBegin ==
    /\ pc = "run" /\ supported /\ ~active /\ ~reclaiming
    /\ active' = TRUE /\ preparing' = TRUE
    /\ prepared' = {} /\ prepareTodo' = Pages
    /\ incoming' = {} /\ batch' = {} /\ kdirty' = {}
    /\ walking' = FALSE /\ walkTodo' = {} /\ spanned' = FALSE
    /\ pc' = "prepare"
    /\ UNCHANGED <<heapVars, marked, needFlush, sweepTodo, retired, discovering, reclaiming, captured, traceVars, supported>>

StepResume ==
    /\ pc = "run" /\ active /\ ~reclaiming
    /\ pc' = IF preparing THEN "prepare" ELSE IF discovering THEN "capture" ELSE "roots"
    /\ UNCHANGED <<heapVars, marked, pageVars, phaseVars, captured, traceVars, dirtyVars, walkVars, supported>>

\* One page of gc_inc_prepare_slice; the deadline is tested after every page.
Prepare(p) ==
    /\ pc = "prepare"
    /\ p \in prepareTodo
    /\ prepareTodo' = prepareTodo \ {p}
    /\ IF p \in prepared
         THEN UNCHANGED <<heapVars, marked, needFlush, prepared>>
         ELSE /\ Reclaim(Swept(p), Null)
              /\ marked' = MarksAfterPrepare(p)
              /\ needFlush' = needFlush \ {p}
              /\ prepared' = prepared \cup {p}
    /\ pc' \in {"prepare", "run"}
    /\ UNCHANGED <<sweepTodo, retired, phaseVars, captured, traceVars, dirtyVars, walkVars, supported>>

\* The pause that ends preparation traces nothing.
PrepareEnd ==
    /\ pc = "prepare"
    /\ prepareTodo = {}
    /\ preparing' = FALSE
    /\ pc' = "run"
    /\ UNCHANGED <<heapVars, marked, pageVars, active, discovering, reclaiming, captured, traceVars, dirtyVars, walkVars, supported>>

\* gc_inc_visit on a set of blocks.
Visit(S) ==
    /\ marked' = marked \cup S
    /\ queue' = queue \cup (S \ marked)

\* gc_inc_roots
ScanRoots ==
    /\ pc = "roots"
    /\ Visit(roots)
    /\ pc' = "rescan"
    /\ UNCHANGED <<heapVars, pageVars, phaseVars, captured, block, cursor, rescanTodo, dirtyVars, walkVars, supported>>

\* gc_dirty_pop
RescanPop(p) ==
    /\ pc = "rescan"
    /\ rescanTodo = {}
    /\ p \in batch
    /\ batch' = batch \ {p}
    /\ rescanTodo' = BlocksOf(p)
    /\ UNCHANGED <<heapVars, marked, pageVars, phaseVars, captured, queue, block, cursor, incoming, kdirty, walkVars, supported, pc>>

\* A marked block of a dirty page is traced again, the current one from its start.
RescanBlock(o) ==
    /\ pc = "rescan"
    /\ o \in rescanTodo
    /\ rescanTodo' = rescanTodo \ {o}
    /\ IF o \notin marked THEN UNCHANGED <<queue, cursor>>
       ELSE IF o = block THEN cursor' = 1 /\ UNCHANGED queue
       ELSE queue' = queue \cup {o} /\ UNCHANGED cursor
    /\ UNCHANGED <<heapVars, marked, pageVars, phaseVars, captured, block, dirtyVars, walkVars, supported, pc>>

RescanEnd ==
    /\ pc = "rescan"
    /\ rescanTodo = {} /\ batch = {}
    /\ pc' = "drain"
    /\ UNCHANGED <<heapVars, marked, pageVars, phaseVars, captured, traceVars, dirtyVars, walkVars, supported>>

DrainPop(o) ==
    /\ pc = "drain"
    /\ block = Null
    /\ o \in queue
    /\ queue' = queue \ {o}
    /\ block' = o /\ cursor' = 1
    /\ UNCHANGED <<heapVars, marked, pageVars, phaseVars, captured, rescanTodo, dirtyVars, walkVars, supported, pc>>

\* Mutant: a null word is visited.
DrainNull ==
    /\ pc = "drain"
    /\ block # Null
    /\ cursor <= NFields
    /\ Visit({fields[block][cursor]})
    /\ cursor' = cursor + 1
    /\ UNCHANGED <<heapVars, pageVars, phaseVars, captured, block, rescanTodo, dirtyVars, walkVars, supported, pc>>

DrainField ==
    /\ pc = "drain"
    /\ block # Null
    /\ cursor <= NFields
    /\ Visit({fields[block][cursor]} \ {Null})
    /\ cursor' = cursor + 1
    /\ UNCHANGED <<heapVars, pageVars, phaseVars, captured, block, rescanTodo, dirtyVars, walkVars, supported, pc>>

DrainBlockEnd ==
    /\ pc = "drain"
    /\ block # Null
    /\ cursor = NFields + 1
    /\ block' = Null /\ cursor' = 1
    /\ UNCHANGED <<heapVars, marked, pageVars, phaseVars, captured, queue, rescanTodo, dirtyVars, walkVars, supported, pc>>

\* The queue is empty: a cycle ends only if a capture was taken in this pause.
DrainEnd ==
    /\ pc = "drain"
    /\ block = Null /\ queue = {}
    /\ pc' = IF captured THEN "finish" ELSE "capture"
    /\ UNCHANGED <<heapVars, marked, pageVars, phaseVars, captured, traceVars, dirtyVars, walkVars, supported>>

\* gc_inc_rescan_dirty or gc_inc_drain meets its deadline.
Deadline ==
    /\ pc \in {"rescan", "drain"}
    /\ captured' = FALSE
    /\ pc' = "run"
    /\ UNCHANGED <<heapVars, marked, pageVars, phaseVars, traceVars, dirtyVars, walkVars, supported>>

\* gc_inc_collect_dirty: a walk over the pages that may span pauses.
CaptureStart ==
    /\ pc = "capture" /\ Kernel /\ ~walking
    /\ walking' = TRUE /\ walkTodo' = Pages /\ spanned' = FALSE
    /\ UNCHANGED <<heapVars, marked, pageVars, phaseVars, captured, traceVars, dirtyVars, supported, pc>>

CapturePage(p) ==
    /\ pc = "capture" /\ walking
    /\ p \in walkTodo
    /\ walkTodo' = walkTodo \ {p}
    /\ incoming' = IF p \in kdirty THEN Enqueued(p) ELSE incoming
    /\ UNCHANGED <<heapVars, marked, pageVars, phaseVars, captured, traceVars, batch, kdirty, walking, spanned, supported, pc>>

CaptureDeadline ==
    /\ pc = "capture" /\ walking
    /\ walkTodo # Pages
    /\ spanned' = TRUE /\ discovering' = TRUE
    /\ pc' = "run"
    /\ UNCHANGED <<heapVars, marked, pageVars, active, preparing, reclaiming, captured, traceVars, dirtyVars, walking, walkTodo, supported>>

\* Mutant: a walk that spanned pauses is taken for complete.
NotRecaptured == incoming

\* gc_inc_capture_all: what was written behind a walk that spanned pauses.
Recaptured == IF Kernel /\ spanned THEN incoming \cup kdirty ELSE incoming

\* Mutant: the next pause captures again.
CaptureAgain ==
    /\ pc = "capture"
    /\ Kernel => walking /\ walkTodo = {}
    /\ batch' = Recaptured
    /\ incoming' = {} /\ kdirty' = {}
    /\ walking' = FALSE /\ walkTodo' = {} /\ spanned' = FALSE
    /\ captured' = TRUE /\ discovering' = TRUE
    /\ pc' = "roots"
    /\ UNCHANGED <<heapVars, marked, pageVars, active, preparing, reclaiming, traceVars, supported>>

\* The capture is complete: rearm, then freeze the queue as the next batch.
CaptureDone ==
    /\ pc = "capture"
    /\ Kernel => walking /\ walkTodo = {}
    /\ batch' = Recaptured
    /\ incoming' = {} /\ kdirty' = {}
    /\ walking' = FALSE /\ walkTodo' = {} /\ spanned' = FALSE
    /\ captured' = TRUE /\ discovering' = FALSE
    /\ pc' = "roots"
    /\ UNCHANGED <<heapVars, marked, pageVars, active, preparing, reclaiming, traceVars, supported>>

-----------------------------------------------------------------------------
(* Completion and reclaiming *)

Publish ==
    /\ pc = "finish"
    /\ needFlush' = Pages
    /\ sweepTodo' = Pages
    /\ active' = FALSE /\ reclaiming' = TRUE /\ captured' = FALSE
    /\ prepared' = {}
    /\ incoming' = {} /\ batch' = {} /\ kdirty' = {}
    /\ pc' = "sweep"
    /\ UNCHANGED <<heapVars, marked, prepareTodo, retired, preparing, discovering, traceVars, walkVars, supported>>

StepReclaim ==
    /\ pc = "run" /\ reclaiming
    /\ pc' = "sweep"
    /\ UNCHANGED <<heapVars, marked, pageVars, phaseVars, captured, traceVars, dirtyVars, walkVars, supported>>

EmptyPage(p) == BlocksOf(p) \cap marked = {}

\* Mutant: a page that allocations have flushed is released by its old marks.
SweepFlushed(p) ==
    /\ pc = "sweep"
    /\ p \in sweepTodo
    /\ sweepTodo' = sweepTodo \ {p}
    /\ \/ UNCHANGED <<heapVars, needFlush>>
       \/ /\ EmptyPage(p)
          /\ Reclaim(BlocksOf(p), Null)
          /\ needFlush' = needFlush \ {p}
    /\ UNCHANGED <<marked, prepared, prepareTodo, retired, phaseVars, captured, traceVars, dirtyVars, walkVars, supported, pc>>

\* gc_empty_sweep_slice on one page: an empty page is kept within the budget or
\* given back, unless an allocation has flushed it since the mark.
SweepPage(p) ==
    /\ pc = "sweep"
    /\ p \in sweepTodo
    /\ sweepTodo' = sweepTodo \ {p}
    /\ \/ UNCHANGED <<heapVars, needFlush>>
       \/ /\ p \in needFlush /\ EmptyPage(p)
          /\ Reclaim(BlocksOf(p), Null)
          /\ needFlush' = needFlush \ {p}
    /\ UNCHANGED <<marked, prepared, prepareTodo, retired, phaseVars, captured, traceVars, dirtyVars, walkVars, supported, pc>>

SweepStop ==
    /\ pc = "sweep"
    /\ reclaiming' = (sweepTodo # {})
    /\ pc' = "run"
    /\ UNCHANGED <<heapVars, marked, pageVars, active, preparing, discovering, captured, traceVars, dirtyVars, walkVars, supported>>

-----------------------------------------------------------------------------
(* Full collections *)

\* gc_incremental_discard, with what the next begin resets before it is read
Discard ==
    /\ active' = FALSE /\ preparing' = FALSE /\ discovering' = FALSE /\ reclaiming' = FALSE
    /\ queue' = {} /\ block' = Null /\ cursor' = 1 /\ rescanTodo' = {}
    /\ incoming' = {} /\ batch' = {} /\ kdirty' = {}
    /\ prepared' = {} /\ prepareTodo' = {} /\ sweepTodo' = {}
    /\ walking' = FALSE /\ walkTodo' = {} /\ spanned' = FALSE
    /\ captured' = FALSE

\* gc_mark: fresh bitmaps, marks of everything reachable; of the pages without
\* a mark those in `must` and what the budget does not keep are given back.
FullMark(must) ==
    /\ Discard
    /\ marked' = Reach
    /\ \E gone \in SUBSET {p \in Pages : BlocksOf(p) \cap Reach = {}} :
         /\ must \cap {p \in Pages : BlocksOf(p) \cap Reach = {}} \subseteq gone
         /\ Reclaim({o \in Objects : pageOf[o] \in gone}, Null)
         /\ needFlush' = Pages \ gone
    /\ pc' = "run"

\* hl_gc_major, hl_gc_owner_live_count, memory pressure, gc_alloc_page out of memory
gc_major ==
    /\ pc = "run"
    /\ FullMark({})
    /\ UNCHANGED <<retired, supported>>

\* A failed read or clear of the soft-dirty bits: a full collection instead of a
\* partial mark, and no further cycle.
TrackingFails ==
    /\ Kernel
    /\ pc = "capture" \/ (pc = "prepare" /\ prepareTodo = Pages)
    /\ FullMark({})
    /\ supported' = FALSE
    /\ UNCHANGED retired

\* hl_gc_owner_release: an owner without live blocks gives its class back, any
\* other keeps its pages in a retired class.
hl_gc_owner_release(p) ==
    /\ pc = "run"
    /\ p \in OwnedPages \ retired
    /\ FullMark({p})
    /\ retired' = IF BlocksOf(p) \cap Reach = {} THEN retired ELSE retired \cup {p}
    /\ UNCHANGED supported

\* gc_owner_class_register with every class taken: a retired class whose pages
\* show no mark bit is released and given to the new owner.
gc_owner_class_register(p) ==
    /\ pc = "run"
    /\ ReuseInCycle \/ ~active
    /\ p \in retired
    /\ EmptyPage(p)
    /\ Reclaim(BlocksOf(p), Null)
    /\ retired' = retired \ {p}
    /\ needFlush' = needFlush \ {p}
    /\ sweepTodo' = {}
    /\ UNCHANGED <<marked, prepared, prepareTodo, phaseVars, captured, traceVars, dirtyVars, walkVars, supported, pc>>

-----------------------------------------------------------------------------
Mutator ==
    \/ \E o \in roots, i \in Fields, v \in roots \cup {Null} : Write(o, i, v)
    \/ \E o \in roots, i \in Fields, v \in roots \cup {Null} : NativeWrite(o, i, v)
    \/ \E o \in roots, i \in Fields : Load(o, i)
    \/ \E o \in roots : Drop(o)
    \/ \E o \in Objects : AllocFull(o) \/ TlabAlloc(o)

Collector ==
    \/ StepBegin \/ StepResume \/ StepReclaim
    \/ \E p \in Pages : Prepare(p) \/ RescanPop(p) \/ CapturePage(p) \/ SweepPage(p)
    \/ PrepareEnd \/ ScanRoots
    \/ \E o \in Objects : RescanBlock(o) \/ DrainPop(o)
    \/ RescanEnd \/ DrainField \/ DrainBlockEnd \/ DrainEnd \/ Deadline
    \/ CaptureStart \/ CaptureDeadline \/ CaptureDone
    \/ Publish \/ SweepStop
    \/ gc_major \/ TrackingFails
    \/ \E p \in Pages : hl_gc_owner_release(p) \/ gc_owner_class_register(p)

Next == Mutator \/ Collector

Spec == Init /\ [][Next]_vars

-----------------------------------------------------------------------------
(* Properties *)

\* The collector keeps its promise: every step of marking, sweeping and releasing
\* pages reclaims garbage only, and no allocation hands out a block in use.
ImplementsHeap == Heap!Spec

\* No reachable block is ever reclaimed, by the lazy sweep, the release of
\* empty pages or the reuse of a retired class.
NoLoss == Reach \subseteq allocated

\* What gc_inc_validate asserts at the end of a cycle: every reachable block is
\* marked when the marks are published.
FinalRemark == pc = "finish" => Reach \subseteq marked

\* The assertion of gc_dirty_capture_done: a capture never replaces a batch, or
\* a page of it, that tracing has not finished with.
BatchDrained == pc = "capture" => batch = {} /\ rescanTodo = {}

\* A mark set after preparation stays until the cycle is over.
MarksStay == [][active /\ active' /\ ~preparing => marked \subseteq marked']_vars
=============================================================================
