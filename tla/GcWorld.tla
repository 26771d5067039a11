------------------------------- MODULE GcWorld -------------------------------
(***************************************************************************)
(* Stop-the-world protocol of the collector (src/gc.c): the recursive      *)
(* global lock, the per-thread counter gc_blocking, the flag               *)
(* stopping_world, saved contexts, thread registration, exclusive          *)
(* sections and the per-thread allocation buffers (GC_TLAB) that a         *)
(* collection has to empty.                                                *)
(*                                                                         *)
(* A thread is a program counter over the steps of the GC entry points.    *)
(* A managed value is a block; held[t] are the blocks in the registers and *)
(* frames of t, ctx[t] those that its saved context shows to the collector.*)
(***************************************************************************)
EXTENDS Integers, FiniteSets

CONSTANTS
    Threads,        \* threads that may register with the collector
    Blocks,         \* blocks of the heap
    NoThread,       \* holder of a free lock
    MaxNest,        \* bound: nesting of hl_blocking(true) calls of a thread
    MaxExclusive,   \* bound: nesting of exclusive sections
    LateDecrement   \* TRUE: the decrement in hl_blocking(false) may reach memory late

ASSUME ThreadsAssumption == NoThread \notin Threads
ASSUME BoundsAssumption  == MaxNest \in Nat /\ MaxExclusive \in Nat
ASSUME SwitchAssumption  == LateDecrement \in BOOLEAN

VARIABLES
    pc,                 \* pc[t]: the step thread t is at
    goal,               \* goal[t]: why t takes the global lock
    threads,            \* gc_threads.threads
    holder, lockDepth,  \* gc_threads.global_lock, a recursive mutex
    xholder,            \* gc_threads.exclusive_lock (hl_global_lock)
    gc_blocking,        \* gc_blocking[t] as t itself reads it
    seen,               \* gc_blocking[t] as the other threads read it
    stopping_world,
    gc_exclusive_depth,
    toStop,             \* threads the spin loop of gc_stop_world has yet to pass
    held, ctx,          \* blocks in the frames of t; blocks in its saved context
    tlab,               \* tlab[t]: blocks reserved in the buffer and not handed out
    free                \* blocks on the free lists

lockVars == <<holder, lockDepth>>
dataVars == <<held, ctx, tlab, free>>
worldVars == <<stopping_world, gc_exclusive_depth, toStop>>
vars == <<pc, goal, threads, lockVars, xholder, gc_blocking, seen, worldVars, dataVars>>

Goals == {"sync", "alloc", "major", "exclusive", "register", "unregister"}

(***************************************************************************)
(* "out": not registered; "run": managed code; "exclusive": managed code   *)
(* inside an exclusive section; "native": inside hl_blocking(true);        *)
(* "check": hl_blocking(false) has decremented and not yet tested          *)
(* stopping_world; "lock", "save", "inc", "wait": gc_global_lock(true);    *)
(* "held": lock taken; "spin": gc_stop_world(true); "scan": gc_mark;       *)
(* "restart": gc_stop_world(false); "done": gc_check_mark has returned;    *)
(* "unlock": gc_global_lock(false); "xwait": blocked in hl_global_lock.    *)
(***************************************************************************)
Steps == {"out", "run", "exclusive", "native", "check", "lock", "save", "inc", "wait",
          "held", "spin", "scan", "restart", "done", "unlock", "xwait"}

TypeOK ==
    /\ pc \in [Threads -> Steps]
    /\ goal \in [Threads -> Goals]
    /\ threads \subseteq Threads
    /\ holder \in Threads \cup {NoThread}
    /\ lockDepth \in Nat
    /\ xholder \in Threads \cup {NoThread}
    /\ gc_blocking \in [Threads -> Nat]
    /\ seen \in [Threads -> Nat]
    /\ stopping_world \in BOOLEAN
    /\ gc_exclusive_depth \in Nat
    /\ toStop \subseteq Threads
    /\ held \in [Threads -> SUBSET Blocks]
    /\ ctx \in [Threads -> SUBSET Blocks]
    /\ tlab \in [Threads -> SUBSET Blocks]
    /\ free \subseteq Blocks

Init ==
    /\ pc = [t \in Threads |-> "out"]
    /\ goal = [t \in Threads |-> "sync"]
    /\ threads = {}
    /\ holder = NoThread /\ lockDepth = 0
    /\ xholder = NoThread
    /\ gc_blocking = [t \in Threads |-> 0]
    /\ seen = [t \in Threads |-> 0]
    /\ stopping_world = FALSE
    /\ gc_exclusive_depth = 0
    /\ toStop = {}
    /\ held = [t \in Threads |-> {}]
    /\ ctx = [t \in Threads |-> {}]
    /\ tlab = [t \in Threads |-> {}]
    /\ free = Blocks

-----------------------------------------------------------------------------
(* Helpers *)

Goto(t, step) == pc' = [pc EXCEPT ![t] = step]

\* A store of t to its own gc_blocking, a plain volatile int: it stays in the
\* store buffer until Drain.
SetBlocking(t, n) ==
    /\ gc_blocking' = [gc_blocking EXCEPT ![t] = n]
    /\ UNCHANGED seen

\* The same store followed by an operation on the mutex, which orders it.
SetBlockingOrdered(t, n) ==
    /\ gc_blocking' = [gc_blocking EXCEPT ![t] = n]
    /\ seen' = [seen EXCEPT ![t] = n]

gc_save_context(t) == ctx' = [ctx EXCEPT ![t] = held[t]]

\* How many of gc_blocking's increments come from the global lock.
LockShare(t) == IF holder = t THEN lockDepth ELSE 0

\* Where a thread is once it is out of the GC entry points.
Home(t, nest) ==
    IF nest > LockShare(t) THEN "native" ELSE IF holder = t THEN "exclusive" ELSE "run"

\* Managed code that may call the runtime.
Managed(t) == pc[t] \in {"run", "exclusive"} /\ xholder # t

\* failed_retirement_add and module_registry_init create a mutex, a collected
\* object, and add a root inside hl_global_lock; no other section of that lock
\* calls the collector.
MayAlloc(t) == Managed(t) \/ pc[t] = "run"

-----------------------------------------------------------------------------
(* gc_global_lock *)

\* A GC entry point that starts by taking the lock.
CallLock(t, g) ==
    /\ goal' = [goal EXCEPT ![t] = g]
    /\ Goto(t, "lock")

LockedStep(g) == IF g = "sync" THEN "unlock" ELSE "held"

\* The uncontended path: no context save.
TryAcquire(t) ==
    /\ pc[t] = "lock"
    /\ holder \in {NoThread, t}
    /\ holder' = t
    /\ lockDepth' = lockDepth + 1
    /\ SetBlocking(t, gc_blocking[t] + 1)
    /\ Goto(t, LockedStep(goal[t]))
    /\ UNCHANGED <<goal, threads, xholder, worldVars, dataVars>>

TryAcquireFails(t) ==
    /\ pc[t] = "lock"
    /\ holder \notin {NoThread, t}
    /\ Goto(t, "save")
    /\ UNCHANGED <<goal, threads, lockVars, xholder, gc_blocking, seen, worldVars, dataVars>>

\* Mutant: gc_global_lock waits without a saved context.
ContendedSaveSkipped(t) ==
    /\ pc[t] = "save"
    /\ Goto(t, "inc")
    /\ UNCHANGED <<goal, threads, lockVars, xholder, gc_blocking, seen, worldVars, dataVars>>

ContendedSave(t) ==
    /\ pc[t] = "save"
    /\ gc_save_context(t)
    /\ Goto(t, "inc")
    /\ UNCHANGED <<goal, threads, lockVars, xholder, gc_blocking, seen, worldVars, held, tlab, free>>

\* Mutant: gc_global_lock waits without raising gc_blocking.
ContendedBlockSkipped(t) ==
    /\ pc[t] = "inc"
    /\ Goto(t, "wait")
    /\ UNCHANGED <<goal, threads, lockVars, xholder, gc_blocking, seen, worldVars, dataVars>>

ContendedBlock(t) ==
    /\ pc[t] = "inc"
    /\ SetBlocking(t, gc_blocking[t] + 1)
    /\ Goto(t, "wait")
    /\ UNCHANGED <<goal, threads, lockVars, xholder, worldVars, dataVars>>

Acquire(t) ==
    /\ pc[t] = "wait"
    /\ holder = NoThread
    /\ holder' = t
    /\ lockDepth' = 1
    /\ SetBlockingOrdered(t, gc_blocking[t])
    /\ Goto(t, LockedStep(goal[t]))
    /\ UNCHANGED <<goal, threads, xholder, worldVars, dataVars>>

\* gc_global_lock(false): only the holder could see the two stores apart.
\* The purpose of the call is forgotten.
Unlock(t) ==
    /\ pc[t] = "unlock"
    /\ lockDepth' = lockDepth - 1
    /\ holder' = IF lockDepth = 1 THEN NoThread ELSE t
    /\ SetBlockingOrdered(t, gc_blocking[t] - 1)
    /\ Goto(t, IF lockDepth = 1 THEN "run" ELSE "exclusive")
    /\ goal' = [goal EXCEPT ![t] = "sync"]
    /\ UNCHANGED <<threads, xholder, worldVars, dataVars>>

\* Entry points that change no state of this module under the lock: roots,
\* pinned instances, owners, hl_gc_threads_lock. hl_gc_threads_try_lock is the
\* same on a free lock and does nothing on a busy one.
hl_gc_threads_lock(t) ==
    /\ MayAlloc(t)
    /\ CallLock(t, "sync")
    /\ UNCHANGED <<threads, lockVars, xholder, gc_blocking, seen, worldVars, dataVars>>

-----------------------------------------------------------------------------
(* Registration *)

hl_register_thread(t) ==
    /\ pc[t] = "out"
    /\ CallLock(t, "register")
    /\ UNCHANGED <<threads, lockVars, xholder, gc_blocking, seen, worldVars, dataVars>>

AddThread(t) ==
    /\ pc[t] = "held" /\ goal[t] = "register"
    /\ threads' = threads \cup {t}
    /\ Goto(t, "unlock")
    /\ UNCHANGED <<goal, lockVars, xholder, gc_blocking, seen, worldVars, dataVars>>

hl_unregister_thread(t) ==
    /\ pc[t] = "run" /\ xholder # t
    /\ CallLock(t, "unregister")
    /\ UNCHANGED <<threads, lockVars, xholder, gc_blocking, seen, worldVars, dataVars>>

\* Takes t out of the list, frees its buffer and releases the mutex directly.
\* The blocks left in the buffer stay reserved until the next collection.
RemoveThread(t) ==
    /\ pc[t] = "held" /\ goal[t] = "unregister"
    /\ threads' = threads \ {t}
    /\ holder' = NoThread /\ lockDepth' = 0
    /\ SetBlockingOrdered(t, 0)
    /\ held' = [held EXCEPT ![t] = {}]
    /\ ctx' = [ctx EXCEPT ![t] = {}]
    /\ tlab' = [tlab EXCEPT ![t] = {}]
    /\ Goto(t, "out")
    /\ UNCHANGED <<goal, xholder, worldVars, free>>

-----------------------------------------------------------------------------
(* Blocking sections and safepoints *)

\* hl_blocking(true)
EnterBlocking(t) ==
    /\ Managed(t) \/ pc[t] = "native"
    /\ gc_blocking[t] - LockShare(t) < MaxNest
    /\ IF gc_blocking[t] = 0 THEN gc_save_context(t) ELSE UNCHANGED ctx
    /\ SetBlocking(t, gc_blocking[t] + 1)
    /\ Goto(t, "native")
    /\ UNCHANGED <<goal, threads, lockVars, xholder, worldVars, held, tlab, free>>

\* hl_blocking(false), up to the decrement. No operation on the mutex follows, so
\* the machine may let the load of stopping_world overtake it.
LeaveBlocking(t) ==
    /\ pc[t] = "native"
    /\ IF LateDecrement
         THEN SetBlocking(t, gc_blocking[t] - 1)
         ELSE SetBlockingOrdered(t, gc_blocking[t] - 1)
    /\ Goto(t, "check")
    /\ UNCHANGED <<goal, threads, lockVars, xholder, worldVars, dataVars>>

\* Mutant: hl_blocking(false) returns without testing stopping_world.
CheckStoppingSkipped(t) ==
    /\ pc[t] = "check"
    /\ Goto(t, Home(t, gc_blocking[t]))
    /\ UNCHANGED <<goal, threads, lockVars, xholder, gc_blocking, seen, worldVars, dataVars>>

\* hl_blocking(false), from the test of stopping_world
CheckStopping(t) ==
    /\ pc[t] = "check"
    /\ IF gc_blocking[t] = 0 /\ stopping_world
         THEN CallLock(t, "sync")
         ELSE Goto(t, Home(t, gc_blocking[t])) /\ UNCHANGED goal
    /\ UNCHANGED <<threads, lockVars, xholder, gc_blocking, seen, worldVars, dataVars>>


hl_gc_safepoint(t) ==
    /\ Managed(t)
    /\ gc_blocking[t] = 0 /\ stopping_world
    /\ gc_save_context(t)
    /\ CallLock(t, "sync")
    /\ UNCHANGED <<threads, lockVars, xholder, gc_blocking, seen, worldVars, held, tlab, free>>

\* A thread's store to gc_blocking reaches memory.
Drain(t) ==
    /\ seen[t] # gc_blocking[t]
    /\ seen' = [seen EXCEPT ![t] = gc_blocking[t]]
    /\ UNCHANGED <<pc, goal, threads, lockVars, xholder, gc_blocking, worldVars, dataVars>>

-----------------------------------------------------------------------------
(* Stopping and restarting the world *)

\* Whether the holder of the lock goes on to stop the world.
StopsFor(g) == g \in {"alloc", "major", "exclusive"}

\* gc_stop_world(true), up to the spin loop
StopBegin(t) ==
    /\ pc[t] = "held" /\ StopsFor(goal[t])
    /\ gc_save_context(t)
    /\ stopping_world' = TRUE
    /\ toStop' = threads
    /\ Goto(t, "spin")
    /\ UNCHANGED <<goal, threads, lockVars, xholder, gc_blocking, seen, gc_exclusive_depth, held, tlab, free>>

SpinPast(t, u) ==
    /\ pc[t] = "spin"
    /\ u \in toStop
    /\ (IF u = t THEN gc_blocking[u] ELSE seen[u]) # 0
    /\ toStop' = toStop \ {u}
    /\ UNCHANGED <<pc, goal, threads, lockVars, xholder, gc_blocking, seen, stopping_world, gc_exclusive_depth, dataVars>>

\* Mutant: gc_stop_world leaves the buffers as they are.
KeepBuffers == tlab

ClearBuffers == [t \in Threads |-> IF t \in threads THEN {} ELSE tlab[t]]

\* The spin loop has ended: the buffers are emptied, and an exclusive section
\* goes on to run the caller's code, a collection to mark.
StopEnd(t) ==
    /\ pc[t] = "spin"
    /\ toStop = {}
    /\ tlab' = ClearBuffers
    /\ IF goal[t] = "exclusive"
         THEN gc_exclusive_depth' = gc_exclusive_depth + 1 /\ Goto(t, "exclusive")
         ELSE Goto(t, "scan") /\ UNCHANGED gc_exclusive_depth
    /\ UNCHANGED <<goal, threads, lockVars, xholder, gc_blocking, seen, stopping_world, toStop, held, ctx, free>>

\* gc_mark and the sweep of what it left unmarked: a block outlives the
\* collection if a saved context of a registered thread shows it.
Mark(t) ==
    /\ pc[t] = "scan"
    /\ free' = Blocks \ UNION {ctx[u] : u \in threads}
    /\ Goto(t, "restart")
    /\ UNCHANGED <<goal, threads, lockVars, xholder, gc_blocking, seen, worldVars, held, ctx, tlab>>

\* gc_stop_world(false)
StartWorld(t) ==
    /\ pc[t] = "restart"
    /\ stopping_world' = (stopping_world /\ gc_exclusive_depth # 0)
    /\ Goto(t, IF goal[t] = "alloc" THEN "done" ELSE "unlock")
    /\ UNCHANGED <<goal, threads, lockVars, xholder, gc_blocking, seen, gc_exclusive_depth, toStop, dataVars>>

hl_gc_major(t) ==
    /\ Managed(t)
    /\ CallLock(t, "major")
    /\ UNCHANGED <<threads, lockVars, xholder, gc_blocking, seen, worldVars, dataVars>>

hl_gc_exclusive_begin(t) ==
    /\ Managed(t)
    /\ gc_exclusive_depth < MaxExclusive
    /\ CallLock(t, "exclusive")
    /\ UNCHANGED <<threads, lockVars, xholder, gc_blocking, seen, worldVars, dataVars>>

hl_gc_exclusive_end(t) ==
    /\ pc[t] = "exclusive" /\ xholder # t
    /\ gc_exclusive_depth' = gc_exclusive_depth - 1
    /\ stopping_world' = (stopping_world /\ gc_exclusive_depth' # 0)
    /\ Goto(t, "unlock")
    /\ UNCHANGED <<goal, threads, lockVars, xholder, gc_blocking, seen, toStop, dataVars>>

-----------------------------------------------------------------------------
(* Allocation *)

\* An allocation that the thread's buffer cannot serve.
hl_gc_alloc(t) ==
    /\ MayAlloc(t)
    /\ CallLock(t, "alloc")
    /\ UNCHANGED <<threads, lockVars, xholder, gc_blocking, seen, worldVars, dataVars>>

\* gc_check_mark below its thresholds: no collection.
gc_check_mark(t) ==
    /\ pc[t] = "held" /\ goal[t] = "alloc"
    /\ Goto(t, "done")
    /\ UNCHANGED <<goal, threads, lockVars, xholder, gc_blocking, seen, worldVars, dataVars>>

\* gc_tlab_alloc: an empty buffer gets a run of free blocks.
Refill(t) ==
    /\ pc[t] = "done"
    /\ tlab[t] = {}
    /\ \E run \in SUBSET free \ {{}} :
         /\ tlab' = [tlab EXCEPT ![t] = run]
         /\ free' = free \ run
    /\ Goto(t, "unlock")
    /\ UNCHANGED <<goal, threads, lockVars, xholder, gc_blocking, seen, worldVars, held, ctx>>

\* gc_alloc_gen_owner_full: one block straight from the free lists.
AllocFull(t) ==
    /\ pc[t] = "done"
    /\ \E b \in free :
         /\ held' = [held EXCEPT ![t] = @ \cup {b}]
         /\ free' = free \ {b}
    /\ Goto(t, "unlock")
    /\ UNCHANGED <<goal, threads, lockVars, xholder, gc_blocking, seen, worldVars, ctx, tlab>>

\* Bound: the heap of the model does not grow past Blocks, so with no free
\* block the allocation ends without one.
HeapBound(t) ==
    /\ pc[t] = "done"
    /\ free = {}
    /\ Goto(t, "unlock")
    /\ UNCHANGED <<goal, threads, lockVars, xholder, gc_blocking, seen, worldVars, dataVars>>

\* The fast path, which takes no lock and makes no test of stopping_world.
AllocFast(t) ==
    /\ Managed(t)
    /\ \E b \in tlab[t] :
         /\ held' = [held EXCEPT ![t] = @ \cup {b}]
         /\ tlab' = [tlab EXCEPT ![t] = @ \ {b}]
    /\ UNCHANGED <<pc, goal, threads, lockVars, xholder, gc_blocking, seen, worldVars, ctx, free>>

\* Managed code forgets a value.
Drop(t) ==
    /\ Managed(t)
    /\ \E b \in held[t] : held' = [held EXCEPT ![t] = @ \ {b}]
    /\ UNCHANGED <<pc, goal, threads, lockVars, xholder, gc_blocking, seen, worldVars, ctx, tlab, free>>

-----------------------------------------------------------------------------
(* hl_global_lock: a plain mutex, acquired without hl_blocking *)

ExclusiveLockCall(t) ==
    /\ Managed(t) /\ pc[t] = "run"
    /\ Goto(t, "xwait")
    /\ UNCHANGED <<goal, threads, lockVars, xholder, gc_blocking, seen, worldVars, dataVars>>

ExclusiveLockTaken(t) ==
    /\ pc[t] = "xwait"
    /\ xholder = NoThread
    /\ xholder' = t
    /\ Goto(t, "run")
    /\ UNCHANGED <<goal, threads, lockVars, gc_blocking, seen, worldVars, dataVars>>

ExclusiveUnlock(t) ==
    /\ pc[t] = "run" /\ xholder = t
    /\ xholder' = NoThread
    /\ UNCHANGED <<pc, goal, threads, lockVars, gc_blocking, seen, worldVars, dataVars>>

-----------------------------------------------------------------------------
\* What a thread does on its own account.
Call(t) ==
    \/ hl_register_thread(t) \/ hl_unregister_thread(t)
    \/ hl_gc_threads_lock(t)
    \/ EnterBlocking(t) \/ LeaveBlocking(t) \/ hl_gc_safepoint(t)
    \/ hl_gc_major(t) \/ hl_gc_exclusive_begin(t) \/ hl_gc_exclusive_end(t)
    \/ hl_gc_alloc(t) \/ AllocFast(t) \/ Drop(t)
    \/ ExclusiveLockCall(t)

\* The steps of a runtime function that has been called, the end of its
\* hl_global_lock section included.
Progress(t) ==
    \/ TryAcquire(t) \/ TryAcquireFails(t) \/ ContendedSave(t) \/ ContendedBlock(t)
    \/ Acquire(t) \/ Unlock(t)
    \/ AddThread(t) \/ RemoveThread(t)
    \/ CheckStopping(t) \/ Drain(t)
    \/ StopBegin(t) \/ (\E u \in Threads : SpinPast(t, u)) \/ StopEnd(t)
    \/ Mark(t) \/ StartWorld(t)
    \/ gc_check_mark(t) \/ Refill(t) \/ AllocFull(t) \/ HeapBound(t)
    \/ ExclusiveLockTaken(t) \/ ExclusiveUnlock(t)

Next == \E t \in Threads : Call(t) \/ Progress(t)

Spec == Init /\ [][Next]_vars

\* The runtime's own code goes on. Nothing is assumed of the program: compiled
\* code reaches hl_gc_safepoint only where an allocation leaves the fast path, or
\* where the program calls it.
FairSpec == Spec /\ \A t \in Threads : WF_vars(Progress(t))

-----------------------------------------------------------------------------
(* Properties *)

\* The thread that may rely on a stopped world: it marks, or it runs inside an
\* exclusive section (hlpatch.c commits a patch there).
Stopped(t) == pc[t] \in {"scan", "restart"} \/ (holder = t /\ gc_exclusive_depth > 0)

\* "All metadata and heap scans run with the world stopped and GC lock held":
\* while a thread marks or is inside an exclusive section it holds the lock and
\* no other registered thread executes managed code.
WorldStopped ==
    \A t \in Threads : Stopped(t) =>
        /\ holder = t
        /\ \A u \in threads \ {t} : pc[u] \notin {"run", "exclusive"}

\* No collection frees a block that a thread still has in its frames: every
\* path into gc_stop_world's spin leaves a saved context that shows them all.
HeldLive == \A t \in Threads : held[t] \cap free = {}

\* A block in an allocation buffer is handed out once: it is on no free list,
\* in no other buffer, and no thread has it already (gc_stop_world empties the
\* buffers because the sweep frees what they still reserve).
BufferPrivate ==
    \A t \in Threads :
        /\ tlab[t] \cap free = {}
        /\ \A u \in Threads : tlab[t] \cap held[u] = {}
        /\ \A u \in Threads \ {t} : tlab[t] \cap tlab[u] = {}

\* A thread whose managed code runs on meets a safepoint again and again.
Polls(t) == SF_vars(hl_gc_safepoint(t))

\* The deadlock of a section of hl_global_lock that allocates: its thread stops
\* the world for the allocation and another one, which that lock keeps from
\* every safepoint, is waited for.
LockedOut(t) == xholder = t /\ \E u \in Threads : pc[u] = "xwait"

=============================================================================
