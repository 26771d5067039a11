---------------------------- MODULE GcMarkThreads ----------------------------
(***************************************************************************)
(* Parallel marking of a full collection (src/gc.c): the collector marks   *)
(* the roots and deals them out to the mark threads (gc_dispatch_mark), a  *)
(* mark thread follows references and deals half of its work out to the    *)
(* idle ones, and the collector waits until none is active                 *)
(* (gc_wait_mark_threads). The world is stopped, so references do not      *)
(* change. More than one mark thread (HL_GC_THREADS) is assumed.           *)
(*                                                                         *)
(* A mark stack is a set: a block is pushed by whoever sets its mark bit.  *)
(***************************************************************************)
EXTENDS Integers, FiniteSets

CONSTANTS
    Objects,        \* blocks of the heap
    NoPtr,          \* blocks on pages without pointers, which are never pushed
    Graphs,         \* the heaps of the model: references of every block
    gc_mark_threads,
    Null            \* no block

ASSUME GraphsAssumption ==
    \A g \in Graphs : g \in [Objects -> SUBSET Objects] /\ \A o \in NoPtr : g[o] = {}
ASSUME ObjectsAssumption == IsFiniteSet(Objects) /\ Null \notin Objects
ASSUME ThreadsAssumption == gc_mark_threads \in Nat /\ gc_mark_threads > 1

VARIABLES
    refs,                   \* refs[o]: blocks that the words of o refer to
    roots,                  \* blocks that roots, stacks and registers refer to
    marked,                 \* bmp bits
    pc,                     \* the collector
    global_mark_stack,
    stack,                  \* stack[w]: mark_threads[w].stack
    ready,                  \* ready[w]: count of the semaphore mark_threads[w].ready
    wpc,                    \* wpc[w]: mark thread w
    block, todo,            \* the block w reads and the references it has yet to read
    mark_threads_active,    \* threads whose bit is set
    mark_threads_pending,
    asleep                  \* the collector is blocked in hl_condition_wait

heapVars == <<refs, roots>>
workVars == <<stack, block, todo>>
countVars == <<mark_threads_active, mark_threads_pending>>
vars == <<heapVars, marked, pc, global_mark_stack, workVars, ready, wpc, countVars, asleep>>

Workers == 0 .. gc_mark_threads - 1

TypeOK ==
    /\ refs \in Graphs /\ roots \subseteq Objects /\ marked \subseteq Objects
    /\ pc \in {"idle", "dispatch", "wait", "check", "fatal"}
    /\ global_mark_stack \subseteq Objects
    /\ stack \in [Workers -> SUBSET Objects]
    /\ ready \in [Workers -> 0 .. 1]
    /\ wpc \in [Workers -> {"acquire", "flush", "dispatch", "scan", "end"}]
    /\ block \in [Workers -> Objects \cup {Null}] /\ todo \in [Workers -> SUBSET Objects]
    /\ mark_threads_active \subseteq Workers /\ mark_threads_pending \in Nat
    /\ asleep \in BOOLEAN

Init ==
    /\ refs \in Graphs /\ roots = {} /\ marked = {}
    /\ pc = "idle"
    /\ global_mark_stack = {}
    /\ stack = [w \in Workers |-> {}]
    /\ ready = [w \in Workers |-> 0]
    /\ wpc = [w \in Workers |-> "acquire"]
    /\ block = [w \in Workers |-> Null] /\ todo = [w \in Workers |-> {}]
    /\ mark_threads_active = {} /\ mark_threads_pending = 0
    /\ asleep = FALSE

-----------------------------------------------------------------------------
(* gc_dispatch_mark, in one step: it holds the lock of mark_completion, and *)
(* until it releases the semaphores nobody else uses the stacks it fills.   *)

Idle == Workers \ mark_threads_active

\* Mutant: the last blocks are left when they do not divide evenly.
CountRoundedDown(n, all) ==
    IF all THEN n \div Cardinality(Idle) ELSE n \div (Cardinality(Idle) + 1)

\* The share of a thread.
Count(n, all) ==
    IF all THEN (n + Cardinality(Idle) - 1) \div Cardinality(Idle)
    ELSE n \div (Cardinality(Idle) + 1)

\* How many blocks w gets when the idle threads are served in order.
Push(w, n, count) ==
    LET before == count * Cardinality({v \in Idle : v < w})
    IN IF n - before > count THEN count ELSE IF n > before THEN n - before ELSE 0

\* The ways to deal out `work` in shares of at most count.
Deals(work, count) ==
    {deal \in [Idle -> SUBSET work] :
        /\ \A w \in Idle : Cardinality(deal[w]) = Push(w, Cardinality(work), count)
        /\ \A v, w \in Idle : v # w => deal[v] \cap deal[w] = {}}

Dealt(deal) == UNION {deal[w] : w \in Idle}

\* Mutant: what is not dealt out is dropped.
Dropped(work, deal) == {}

\* What stays on the stack of the one that deals.
Kept(work, deal) == work \ Dealt(deal)

\* Mutant: the threads of a full dispatch are released twice.
ReleasedTwice(all) == [w \in Workers |-> IF w \in Idle THEN ready[w] + (IF all THEN 2 ELSE 1) ELSE ready[w]]

\* hl_semaphore_release on every thread that was idle
Released(all) == [w \in Workers |-> IF w \in Idle THEN ready[w] + 1 ELSE ready[w]]

\* "assert": an idle thread has a block on its stack.
DispatchFails == \E w \in Idle : stack[w] # {}

Filled(deal) == [w \in Workers |-> IF w \in Idle THEN deal[w] ELSE stack[w]]

Activate(all) ==
    /\ mark_threads_active' = Workers
    /\ mark_threads_pending' = mark_threads_pending + Cardinality(Idle)
    /\ ready' = Released(all)

\* Nothing is dealt out: every thread is busy or there is too little work.
NoDispatch(work, all) == Idle = {} \/ Count(Cardinality(work), all) = 0

-----------------------------------------------------------------------------
(* The collector *)

\* gc_mark: the roots are marked and pushed.
gc_mark ==
    /\ pc = "idle"
    /\ roots' \in SUBSET Objects
    /\ marked' = roots'
    /\ global_mark_stack' = roots' \ NoPtr
    /\ pc' = "dispatch"
    /\ UNCHANGED <<refs, workVars, ready, wpc, countVars, asleep>>

DispatchAll ==
    /\ pc = "dispatch"
    /\ IF NoDispatch(global_mark_stack, TRUE)
         THEN /\ pc' = IF global_mark_stack = {} THEN "wait" ELSE "fatal"
              /\ UNCHANGED <<global_mark_stack, stack, ready, countVars>>
         ELSE \E deal \in Deals(global_mark_stack, Count(Cardinality(global_mark_stack), TRUE)) :
              /\ stack' = Filled(deal)
              /\ global_mark_stack' = Kept(global_mark_stack, deal)
              /\ Activate(TRUE)
              /\ pc' = IF DispatchFails \/ global_mark_stack' # {} \/ Idle # Workers THEN "fatal" ELSE "wait"
    /\ UNCHANGED <<heapVars, marked, block, todo, wpc, asleep>>

\* gc_wait_mark_threads: the test of the loop, with the lock held
WaitTest ==
    /\ pc = "wait" /\ ~asleep
    /\ IF mark_threads_pending > 0
         THEN asleep' = TRUE /\ UNCHANGED pc
         ELSE /\ pc' = IF mark_threads_active # {} THEN "fatal" ELSE "check"
              /\ UNCHANGED asleep
    /\ UNCHANGED <<heapVars, marked, global_mark_stack, workVars, ready, wpc, countVars>>

\* hl_condition_wait may return without a signal.
Spurious ==
    /\ asleep
    /\ asleep' = FALSE
    /\ UNCHANGED <<heapVars, marked, pc, global_mark_stack, workVars, ready, wpc, countVars>>

\* The asserts at the end of gc_mark. The sweep and the program come next.
MarkEnd ==
    /\ pc = "check"
    /\ pc' = IF \E w \in Workers : stack[w] # {} THEN "fatal" ELSE "idle"
    /\ UNCHANGED <<heapVars, marked, global_mark_stack, workVars, ready, wpc, countVars, asleep>>

-----------------------------------------------------------------------------
(* mark_thread_main *)

ReadyAcquire(w) ==
    /\ wpc[w] = "acquire"
    /\ ready[w] > 0
    /\ ready' = [ready EXCEPT ![w] = @ - 1]
    /\ wpc' = [wpc EXCEPT ![w] = "flush"]
    /\ UNCHANGED <<heapVars, marked, pc, global_mark_stack, workVars, countVars, asleep>>

\* gc_flush_mark: the next block. It looks for idle threads at the first block
\* and then once in 2^REGULAR_BITS blocks.
FlushPop(w, o) ==
    /\ wpc[w] = "flush"
    /\ o \in stack[w]
    /\ stack' = [stack EXCEPT ![w] = @ \ {o}]
    /\ block' = [block EXCEPT ![w] = o]
    /\ todo' = [todo EXCEPT ![w] = refs[o]]
    /\ \E next \in {"dispatch", "scan"} : wpc' = [wpc EXCEPT ![w] = next]
    /\ UNCHANGED <<heapVars, marked, pc, global_mark_stack, ready, countVars, asleep>>

DispatchSome(w) ==
    /\ wpc[w] = "dispatch"
    /\ wpc' = [wpc EXCEPT ![w] = "scan"]
    /\ IF NoDispatch(stack[w], FALSE)
         THEN UNCHANGED <<pc, stack, ready, countVars>>
         ELSE \E deal \in Deals(stack[w], Count(Cardinality(stack[w]), FALSE)) :
              /\ stack' = [Filled(deal) EXCEPT ![w] = Kept(stack[w], deal)]
              /\ Activate(FALSE)
              /\ pc' = IF DispatchFails THEN "fatal" ELSE pc
    /\ UNCHANGED <<heapVars, marked, global_mark_stack, block, todo, asleep>>

\* One word of the block: atomic_bit_set, and a push by the thread that set it.
ScanWord(w, o) ==
    /\ wpc[w] = "scan"
    /\ o \in todo[w]
    /\ todo' = [todo EXCEPT ![w] = @ \ {o}]
    /\ marked' = marked \cup {o}
    /\ stack' = [stack EXCEPT ![w] = @ \cup ({o} \ (marked \cup NoPtr))]
    /\ UNCHANGED <<heapVars, pc, global_mark_stack, block, ready, wpc, countVars, asleep>>

ScanEnd(w) ==
    /\ wpc[w] = "scan"
    /\ todo[w] = {}
    /\ block' = [block EXCEPT ![w] = Null]
    /\ wpc' = [wpc EXCEPT ![w] = "flush"]
    /\ UNCHANGED <<heapVars, marked, pc, global_mark_stack, stack, todo, ready, countVars, asleep>>

FlushEnd(w) ==
    /\ wpc[w] = "flush"
    /\ stack[w] = {}
    /\ wpc' = [wpc EXCEPT ![w] = "end"]
    /\ UNCHANGED <<heapVars, marked, pc, global_mark_stack, workVars, ready, countVars, asleep>>

\* Mutant: the count is tested before it goes down.
SignalEarly(w) == asleep' = (asleep /\ mark_threads_pending # 0)

\* hl_condition_signal when this was the last thread
Signal(w) == asleep' = (asleep /\ mark_threads_pending - 1 # 0)

WorkerEnd(w) ==
    /\ wpc[w] = "end"
    /\ mark_threads_active' = mark_threads_active \ {w}
    /\ mark_threads_pending' = mark_threads_pending - 1
    /\ Signal(w)
    /\ wpc' = [wpc EXCEPT ![w] = "acquire"]
    /\ pc' = IF w \notin mark_threads_active \/ mark_threads_pending <= 0 THEN "fatal" ELSE pc
    /\ UNCHANGED <<heapVars, marked, global_mark_stack, workVars, ready>>

-----------------------------------------------------------------------------
MarkThread(w) ==
    \/ ReadyAcquire(w) \/ DispatchSome(w) \/ ScanEnd(w) \/ FlushEnd(w) \/ WorkerEnd(w)
    \/ \E o \in Objects : FlushPop(w, o) \/ ScanWord(w, o)

Collector == DispatchAll \/ WaitTest \/ MarkEnd

\* hl_fatal ends the process.
Next ==
    /\ pc # "fatal"
    /\ gc_mark \/ Collector \/ Spurious \/ \E w \in Workers : MarkThread(w)

Spec == Init /\ [][Next]_vars

FairSpec == Spec /\ WF_vars(Collector) /\ \A w \in Workers : WF_vars(MarkThread(w))

-----------------------------------------------------------------------------
(* Properties *)

Closed(S) == roots \subseteq S /\ \A o \in S : refs[o] \subseteq S
Reach == {o \in Objects : \A S \in SUBSET Objects : Closed(S) => o \in S}

\* When gc_wait_mark_threads returns, the marks are exactly the blocks in reach:
\* no block was dropped while work went from thread to thread.
MarkComplete == pc = "check" => marked = Reach

\* No assert of gc_dispatch_mark, gc_wait_mark_threads, mark_thread_main and
\* gc_mark fails.
NoFatal == pc # "fatal"

\* The collector does not wait for ever: the last thread wakes it up.
WaitEnds == pc = "wait" ~> pc # "wait"
=============================================================================
