---------------------------- MODULE GcWorldProofs ----------------------------
(***************************************************************************)
(* Proofs about GcWorld for any set of threads and blocks and any bounds,  *)
(* on memory that may delay the increments of gc_blocking, but not the     *)
(* decrement of hl_blocking(false) (LateDecrement = FALSE).                *)
(***************************************************************************)
EXTENDS GcWorld, TLAPS

\* Steps at which the thread holds the global lock.
HolderSteps == {"held", "spin", "scan", "restart", "done", "unlock", "exclusive"}

\* Steps a thread can be at, from the moment gc_stop_world's spin has passed it
\* until the world restarts.
HaltSteps == {"native", "check", "lock", "save", "inc", "wait"}

\* Other threads may miss increments of gc_blocking, but no decrement.
SeenInv == \A t \in Threads : seen[t] <= gc_blocking[t]

\* Who holds the lock, and how deep.
LockInv ==
    /\ holder = NoThread <=> lockDepth = 0
    /\ \A t \in Threads :
         /\ pc[t] \in HolderSteps => holder = t
         /\ holder = t => pc[t] \in HolderSteps \cup {"native", "check", "lock"}

\* What gc_blocking counts at each step.
BlockInv ==
    \A t \in Threads :
        /\ pc[t] \in {"out", "run", "xwait", "save", "inc"} => gc_blocking[t] = 0
        /\ pc[t] = "wait" => gc_blocking[t] = 1
        /\ pc[t] \in HolderSteps => gc_blocking[t] = lockDepth
        /\ pc[t] = "lock" => gc_blocking[t] = LockShare(t)
        /\ pc[t] = "check" => gc_blocking[t] >= LockShare(t)
        /\ pc[t] = "native" => gc_blocking[t] > LockShare(t)

\* The levels of the lock are those of the exclusive sections, plus one inside
\* an entry point.
DepthInv ==
    /\ holder = NoThread => gc_exclusive_depth = 0
    /\ \A t \in Threads : holder = t =>
         IF pc[t] \in HolderSteps \ {"exclusive"}
           THEN lockDepth = gc_exclusive_depth + 1
           ELSE lockDepth = gc_exclusive_depth

\* Registration takes the lock once, and a thread outside the list is nowhere
\* else than before or inside hl_register_thread, without blocks.
RegisterInv ==
    \A t \in Threads :
        /\ pc[t] \in {"lock", "held"} /\ goal[t] \in {"register", "unregister"} /\ holder = t
             => pc[t] = "held" /\ lockDepth = 1
        /\ t \notin threads =>
             /\ \/ pc[t] = "out"
                \/ pc[t] \in {"lock", "save", "inc", "wait", "held"} /\ goal[t] = "register"
             /\ held[t] = {} /\ tlab[t] = {}
        /\ t \in threads => pc[t] # "out"

\* The flag stays up while the lock holder relies on it.
FlagInv ==
    /\ gc_exclusive_depth > 0 => stopping_world
    /\ \A t \in Threads : pc[t] \in {"spin", "scan", "restart"} => stopping_world

\* A thread the collector does not wait for has saved a context that shows all
\* it holds.
ContextInv ==
    \A t \in Threads :
        /\ pc[t] \in {"native", "check"} /\ holder # t => held[t] \subseteq ctx[t]
        /\ pc[t] \in {"inc", "wait", "spin", "scan"} => held[t] \subseteq ctx[t]

Halted(u) == pc[u] \in HaltSteps /\ held[u] \subseteq ctx[u]

\* What the spin loop has established so far.
StopInv ==
    \A t \in Threads :
        /\ pc[t] = "spin" => \A u \in threads \ {t} : u \in toStop \/ Halted(u)
        /\ Stopped(t) => \A u \in threads \ {t} : Halted(u)

\* The buffers are empty while a thread marks.
EmptyInv == \A t \in Threads : pc[t] = "scan" => \A u \in Threads : tlab[u] = {}

\* The protocol's own part of the invariant.
ControlInv == SeenInv /\ LockInv /\ BlockInv /\ DepthInv /\ RegisterInv /\ FlagInv

\* What a stopped world gives the thread that stopped it.
HaltInv == ContextInv /\ StopInv /\ EmptyInv

\* What the collections must not break.
DataInv == HeldLive /\ BufferPrivate

\* The inductive invariant.
IInv == TypeOK /\ ControlInv /\ HaltInv /\ DataInv

\* A call that goes for the global lock changes nothing else.
LEMMA CallStep ==
    ASSUME IInv, ~LateDecrement, NEW t \in Threads, 
              hl_gc_threads_lock(t) \/ hl_unregister_thread(t) \/ hl_gc_major(t) \/ hl_gc_exclusive_begin(t) \/ hl_gc_alloc(t)
    PROVE  IInv'
<1> USE ThreadsAssumption DEF IInv, lockVars, worldVars, dataVars
<1>1. TypeOK'
  BY DEF TypeOK, ControlInv, LockInv, BlockInv, DepthInv, hl_gc_threads_lock,
         Managed, MayAlloc, CallLock, Goals, hl_unregister_thread, hl_gc_major,
         hl_gc_exclusive_begin, hl_gc_alloc, Goto, Steps
<1>2. ControlInv'
  <2>1. SeenInv'
    BY DEF TypeOK, ControlInv, SeenInv, LockInv, HolderSteps, hl_gc_threads_lock,
         Managed, MayAlloc, CallLock, Goals, hl_unregister_thread, hl_gc_major,
         hl_gc_exclusive_begin, hl_gc_alloc, Goto, Steps
  <2>2. LockInv'
    BY DEF TypeOK, ControlInv, SeenInv, LockInv, HolderSteps, hl_gc_threads_lock,
         Managed, MayAlloc, CallLock, Goals, hl_unregister_thread, hl_gc_major,
         hl_gc_exclusive_begin, hl_gc_alloc, Goto, Steps
  <2>3. BlockInv'
    BY DEF TypeOK, ControlInv, SeenInv, LockInv, HolderSteps, BlockInv, LockShare,
         hl_gc_threads_lock, Managed, MayAlloc, CallLock, Goals, hl_unregister_thread,
         hl_gc_major, hl_gc_exclusive_begin, hl_gc_alloc, Goto, Steps
  <2>4. DepthInv'
    BY DEF TypeOK, ControlInv, SeenInv, LockInv, HolderSteps, DepthInv, BlockInv,
         hl_gc_threads_lock, Managed, MayAlloc, CallLock, Goals, hl_unregister_thread,
         hl_gc_major, hl_gc_exclusive_begin, hl_gc_alloc, Goto, Steps
  <2>5. RegisterInv'
    BY DEF TypeOK, ControlInv, SeenInv, LockInv, HolderSteps, RegisterInv, BlockInv,
         hl_gc_threads_lock, Managed, MayAlloc, CallLock, Goals, hl_unregister_thread,
         hl_gc_major, hl_gc_exclusive_begin, hl_gc_alloc, Goto, Steps
  <2>6. FlagInv'
    BY DEF TypeOK, ControlInv, SeenInv, LockInv, HolderSteps, FlagInv,
         hl_gc_threads_lock, Managed, MayAlloc, CallLock, Goals, hl_unregister_thread,
         hl_gc_major, hl_gc_exclusive_begin, hl_gc_alloc, Goto, Steps
  <2> QED BY <2>1, <2>2, <2>3, <2>4, <2>5, <2>6 DEF ControlInv
<1>3. HaltInv'
  BY <1>1, <1>2 DEF TypeOK, ControlInv, SeenInv, LockInv, BlockInv, DepthInv,
         RegisterInv, FlagInv, HolderSteps, LockShare, HaltInv, ContextInv, StopInv,
         EmptyInv, Stopped, Halted, HaltSteps, hl_gc_threads_lock, Managed, MayAlloc,
         CallLock, Goals, hl_unregister_thread, hl_gc_major, hl_gc_exclusive_begin,
         hl_gc_alloc, Goto, Steps
<1>4. DataInv'
  BY DEF TypeOK, ControlInv, RegisterInv, HaltInv, EmptyInv, DataInv, HeldLive,
         BufferPrivate, hl_gc_threads_lock, Managed, MayAlloc, CallLock, Goals,
         hl_unregister_thread, hl_gc_major, hl_gc_exclusive_begin, hl_gc_alloc,
         Goto, Steps
<1> QED BY <1>1, <1>2, <1>3, <1>4

\* hl_register_thread, up to the lock.
LEMMA RegisterStep ==
    ASSUME IInv, ~LateDecrement, NEW t \in Threads, hl_register_thread(t)
    PROVE  IInv'
<1> USE ThreadsAssumption DEF IInv, lockVars, worldVars, dataVars
<1>1. TypeOK'
  BY DEF TypeOK, ControlInv, LockInv, BlockInv, DepthInv, hl_register_thread,
         CallLock, Goals, Goto, Steps
<1>2. ControlInv'
  BY <1>1 DEF TypeOK, ControlInv, SeenInv, LockInv, BlockInv, DepthInv, RegisterInv,
         FlagInv, HolderSteps, LockShare, hl_register_thread, CallLock, Goals, Goto,
         Steps
<1>3. HaltInv'
  BY <1>1, <1>2 DEF TypeOK, ControlInv, SeenInv, LockInv, BlockInv, DepthInv,
         RegisterInv, FlagInv, HolderSteps, LockShare, HaltInv, ContextInv, StopInv,
         EmptyInv, Stopped, Halted, HaltSteps, hl_register_thread, CallLock, Goals,
         Goto, Steps
<1>4. DataInv'
  BY DEF TypeOK, ControlInv, RegisterInv, HaltInv, EmptyInv, DataInv, HeldLive,
         BufferPrivate, hl_register_thread, CallLock, Goals, Goto, Steps
<1> QED BY <1>1, <1>2, <1>3, <1>4

\* The uncontended lock. It is free or already the thread's own.
LEMMA TryAcquireStep ==
    ASSUME IInv, ~LateDecrement, NEW t \in Threads, TryAcquire(t)
    PROVE  IInv'
<1> USE ThreadsAssumption DEF IInv, lockVars, worldVars, dataVars
<1>1. TypeOK'
  BY DEF TypeOK, ControlInv, LockInv, BlockInv, DepthInv, TryAcquire, LockedStep,
         SetBlocking, Goto, Steps
<1>2. ControlInv'
  BY <1>1 DEF TypeOK, ControlInv, SeenInv, LockInv, BlockInv, DepthInv, RegisterInv,
         FlagInv, HolderSteps, LockShare, TryAcquire, LockedStep, SetBlocking, Goto,
         Steps
<1>3. HaltInv'
  BY <1>1, <1>2 DEF TypeOK, ControlInv, SeenInv, LockInv, BlockInv, DepthInv,
         RegisterInv, FlagInv, HolderSteps, LockShare, HaltInv, ContextInv, StopInv,
         EmptyInv, Stopped, Halted, HaltSteps, TryAcquire, LockedStep, SetBlocking,
         Goto, Steps
<1>4. DataInv'
  BY DEF TypeOK, ControlInv, RegisterInv, HaltInv, EmptyInv, DataInv, HeldLive,
         BufferPrivate, TryAcquire, LockedStep, SetBlocking, Goto, Steps
<1> QED BY <1>1, <1>2, <1>3, <1>4

\* The contended lock, up to the wait: the context is saved before gc_blocking is raised.
LEMMA ContendedStep ==
    ASSUME IInv, ~LateDecrement, NEW t \in Threads, 
              TryAcquireFails(t) \/ ContendedSave(t) \/ ContendedBlock(t)
    PROVE  IInv'
<1> USE ThreadsAssumption DEF IInv, lockVars, worldVars, dataVars
<1>1. TypeOK'
  BY DEF TypeOK, ControlInv, LockInv, BlockInv, DepthInv, TryAcquireFails,
         ContendedSave, gc_save_context, ContendedBlock, SetBlocking, Goto, Steps
<1>2. ControlInv'
  <2>1. SeenInv'
    BY DEF TypeOK, ControlInv, SeenInv, LockInv, HolderSteps, TryAcquireFails,
         ContendedSave, gc_save_context, ContendedBlock, SetBlocking, Goto, Steps
  <2>2. LockInv'
    BY DEF TypeOK, ControlInv, SeenInv, LockInv, HolderSteps, TryAcquireFails,
         ContendedSave, gc_save_context, ContendedBlock, SetBlocking, Goto, Steps
  <2>3. BlockInv'
    BY DEF TypeOK, ControlInv, SeenInv, LockInv, HolderSteps, BlockInv, LockShare,
         TryAcquireFails, ContendedSave, gc_save_context, ContendedBlock,
         SetBlocking, Goto, Steps
  <2>4. DepthInv'
    BY DEF TypeOK, ControlInv, SeenInv, LockInv, HolderSteps, DepthInv, BlockInv,
         TryAcquireFails, ContendedSave, gc_save_context, ContendedBlock,
         SetBlocking, Goto, Steps
  <2>5. RegisterInv'
    BY DEF TypeOK, ControlInv, SeenInv, LockInv, HolderSteps, RegisterInv, BlockInv,
         TryAcquireFails, ContendedSave, gc_save_context, ContendedBlock,
         SetBlocking, Goto, Steps
  <2>6. FlagInv'
    BY DEF TypeOK, ControlInv, SeenInv, LockInv, HolderSteps, FlagInv,
         TryAcquireFails, ContendedSave, gc_save_context, ContendedBlock,
         SetBlocking, Goto, Steps
  <2> QED BY <2>1, <2>2, <2>3, <2>4, <2>5, <2>6 DEF ControlInv
<1>3. HaltInv'
  BY <1>1, <1>2 DEF TypeOK, ControlInv, SeenInv, LockInv, BlockInv, DepthInv,
         RegisterInv, FlagInv, HolderSteps, LockShare, HaltInv, ContextInv, StopInv,
         EmptyInv, Stopped, Halted, HaltSteps, TryAcquireFails, ContendedSave,
         gc_save_context, ContendedBlock, SetBlocking, Goto, Steps
<1>4. DataInv'
  BY DEF TypeOK, ControlInv, RegisterInv, HaltInv, EmptyInv, DataInv, HeldLive,
         BufferPrivate, TryAcquireFails, ContendedSave, gc_save_context,
         ContendedBlock, SetBlocking, Goto, Steps
<1> QED BY <1>1, <1>2, <1>3, <1>4

\* A waiter gets the lock, so no world is stopped.
LEMMA AcquireStep ==
    ASSUME IInv, ~LateDecrement, NEW t \in Threads, Acquire(t)
    PROVE  IInv'
<1> USE ThreadsAssumption DEF IInv, lockVars, worldVars, dataVars
<1>1. TypeOK'
  BY DEF TypeOK, ControlInv, LockInv, BlockInv, DepthInv, Acquire, LockedStep,
         SetBlockingOrdered, Goto, Steps
<1>2. ControlInv'
  BY <1>1 DEF TypeOK, ControlInv, SeenInv, LockInv, BlockInv, DepthInv, RegisterInv,
         FlagInv, HolderSteps, LockShare, Acquire, LockedStep, SetBlockingOrdered,
         Goto, Steps
<1>3. HaltInv'
  BY <1>1, <1>2 DEF TypeOK, ControlInv, SeenInv, LockInv, BlockInv, DepthInv,
         RegisterInv, FlagInv, HolderSteps, LockShare, HaltInv, ContextInv, StopInv,
         EmptyInv, Stopped, Halted, HaltSteps, Acquire, LockedStep,
         SetBlockingOrdered, Goto, Steps
<1>4. DataInv'
  BY DEF TypeOK, ControlInv, RegisterInv, HaltInv, EmptyInv, DataInv, HeldLive,
         BufferPrivate, Acquire, LockedStep, SetBlockingOrdered, Goto, Steps
<1> QED BY <1>1, <1>2, <1>3, <1>4

\* The outermost unlock comes after every exclusive section has ended.
LEMMA UnlockStep ==
    ASSUME IInv, ~LateDecrement, NEW t \in Threads, Unlock(t)
    PROVE  IInv'
<1> USE ThreadsAssumption DEF IInv, lockVars, worldVars, dataVars
<1>1. TypeOK'
  BY DEF TypeOK, ControlInv, LockInv, BlockInv, DepthInv, HolderSteps, LockShare,
         Unlock, SetBlockingOrdered, Goto, Steps, Goals
<1>2. ControlInv'
  BY <1>1 DEF TypeOK, ControlInv, SeenInv, LockInv, BlockInv, DepthInv, RegisterInv,
         FlagInv, HolderSteps, LockShare, Unlock, SetBlockingOrdered, Goto, Steps
<1>3. HaltInv'
  BY <1>1, <1>2 DEF TypeOK, ControlInv, SeenInv, LockInv, BlockInv, DepthInv,
         RegisterInv, FlagInv, HolderSteps, LockShare, HaltInv, ContextInv, StopInv,
         EmptyInv, Stopped, Halted, HaltSteps, Unlock, SetBlockingOrdered, Goto,
         Steps
<1>4. DataInv'
  BY DEF TypeOK, ControlInv, RegisterInv, HaltInv, EmptyInv, DataInv, HeldLive,
         BufferPrivate, Unlock, SetBlockingOrdered, Goto, Steps
<1> QED BY <1>1, <1>2, <1>3, <1>4

\* A thread enters the list under the lock.
LEMMA AddThreadStep ==
    ASSUME IInv, ~LateDecrement, NEW t \in Threads, AddThread(t)
    PROVE  IInv'
<1> USE ThreadsAssumption DEF IInv, lockVars, worldVars, dataVars
<1>1. TypeOK'
  BY DEF TypeOK, ControlInv, LockInv, BlockInv, DepthInv, AddThread, Goto, Steps
<1>2. ControlInv'
  BY <1>1 DEF TypeOK, ControlInv, SeenInv, LockInv, BlockInv, DepthInv, RegisterInv,
         FlagInv, HolderSteps, LockShare, AddThread, Goto, Steps
<1>3. HaltInv'
  BY <1>1, <1>2 DEF TypeOK, ControlInv, SeenInv, LockInv, BlockInv, DepthInv,
         RegisterInv, FlagInv, HolderSteps, LockShare, HaltInv, ContextInv, StopInv,
         EmptyInv, Stopped, Halted, HaltSteps, AddThread, Goto, Steps
<1>4. DataInv'
  BY DEF TypeOK, ControlInv, RegisterInv, HaltInv, EmptyInv, DataInv, HeldLive,
         BufferPrivate, AddThread, Goto, Steps
<1> QED BY <1>1, <1>2, <1>3, <1>4

\* A thread leaves the list with everything it had.
LEMMA RemoveThreadStep ==
    ASSUME IInv, ~LateDecrement, NEW t \in Threads, RemoveThread(t)
    PROVE  IInv'
<1> USE ThreadsAssumption DEF IInv, lockVars, worldVars, dataVars
<1>1. TypeOK'
  BY DEF TypeOK, ControlInv, LockInv, BlockInv, DepthInv, RemoveThread,
         SetBlockingOrdered, Goto, Steps
<1>2. ControlInv'
  BY <1>1 DEF TypeOK, ControlInv, SeenInv, LockInv, BlockInv, DepthInv, RegisterInv,
         FlagInv, HolderSteps, LockShare, RemoveThread, SetBlockingOrdered, Goto,
         Steps
<1>3. HaltInv'
  BY <1>1, <1>2 DEF TypeOK, ControlInv, SeenInv, LockInv, BlockInv, DepthInv,
         RegisterInv, FlagInv, HolderSteps, LockShare, HaltInv, ContextInv, StopInv,
         EmptyInv, Stopped, Halted, HaltSteps, RemoveThread, SetBlockingOrdered,
         Goto, Steps
<1>4. DataInv'
  BY DEF TypeOK, ControlInv, RegisterInv, HaltInv, EmptyInv, DataInv, HeldLive,
         BufferPrivate, RemoveThread, SetBlockingOrdered, Goto, Steps
<1> QED BY <1>1, <1>2, <1>3, <1>4

\* hl_blocking(true) saves the context when the collector could start to ignore the thread.
LEMMA EnterBlockingStep ==
    ASSUME IInv, ~LateDecrement, NEW t \in Threads, EnterBlocking(t)
    PROVE  IInv'
<1> USE ThreadsAssumption DEF IInv, lockVars, worldVars, dataVars
<1>1. TypeOK'
  BY DEF TypeOK, ControlInv, LockInv, BlockInv, DepthInv, EnterBlocking, Managed,
         SetBlocking, gc_save_context, Goto, Steps
<1>2. ControlInv'
  BY <1>1 DEF TypeOK, ControlInv, SeenInv, LockInv, BlockInv, DepthInv, RegisterInv,
         FlagInv, HolderSteps, LockShare, EnterBlocking, Managed, SetBlocking,
         gc_save_context, Goto, Steps
<1>3. HaltInv'
  BY <1>1, <1>2 DEF TypeOK, ControlInv, SeenInv, LockInv, BlockInv, DepthInv,
         RegisterInv, FlagInv, HolderSteps, LockShare, HaltInv, ContextInv, StopInv,
         EmptyInv, Stopped, Halted, HaltSteps, EnterBlocking, Managed, SetBlocking,
         gc_save_context, Goto, Steps
<1>4. DataInv'
  BY DEF TypeOK, ControlInv, RegisterInv, HaltInv, EmptyInv, DataInv, HeldLive,
         BufferPrivate, EnterBlocking, Managed, SetBlocking, gc_save_context, Goto,
         Steps
<1> QED BY <1>1, <1>2, <1>3, <1>4

\* hl_blocking(false), the decrement.
LEMMA LeaveBlockingStep ==
    ASSUME IInv, ~LateDecrement, NEW t \in Threads, LeaveBlocking(t)
    PROVE  IInv'
<1> USE ThreadsAssumption DEF IInv, lockVars, worldVars, dataVars
<1>1. TypeOK'
  BY DEF TypeOK, ControlInv, LockInv, BlockInv, DepthInv, HolderSteps, LockShare,
         LeaveBlocking, SetBlocking, SetBlockingOrdered, Goto, Steps
<1>2. ControlInv'
  BY <1>1 DEF TypeOK, ControlInv, SeenInv, LockInv, BlockInv, DepthInv, RegisterInv,
         FlagInv, HolderSteps, LockShare, LeaveBlocking, SetBlocking, SetBlockingOrdered, Goto, Steps
<1>3. HaltInv'
  BY <1>1, <1>2 DEF TypeOK, ControlInv, SeenInv, LockInv, BlockInv, DepthInv,
         RegisterInv, FlagInv, HolderSteps, LockShare, HaltInv, ContextInv, StopInv,
         EmptyInv, Stopped, Halted, HaltSteps, LeaveBlocking, SetBlocking, SetBlockingOrdered, Goto,
         Steps
<1>4. DataInv'
  BY DEF TypeOK, ControlInv, RegisterInv, HaltInv, EmptyInv, DataInv, HeldLive,
         BufferPrivate, LeaveBlocking, SetBlocking, SetBlockingOrdered, Goto, Steps
<1> QED BY <1>1, <1>2, <1>3, <1>4

\* hl_blocking(false), the test: a thread that was passed finds stopping_world set.
LEMMA CheckStoppingStep ==
    ASSUME IInv, ~LateDecrement, NEW t \in Threads, CheckStopping(t)
    PROVE  IInv'
<1> USE ThreadsAssumption DEF IInv, lockVars, worldVars, dataVars
<1>1. TypeOK'
  BY DEF TypeOK, ControlInv, LockInv, BlockInv, DepthInv, CheckStopping, CallLock,
         Goals, Home, Goto, Steps
<1>2. ControlInv'
  BY <1>1 DEF TypeOK, ControlInv, SeenInv, LockInv, BlockInv, DepthInv, RegisterInv,
         FlagInv, HolderSteps, LockShare, CheckStopping, CallLock, Goals, Home,
         Goto, Steps
<1>3. HaltInv'
  BY <1>1, <1>2 DEF TypeOK, ControlInv, SeenInv, LockInv, BlockInv, DepthInv,
         RegisterInv, FlagInv, HolderSteps, LockShare, HaltInv, ContextInv, StopInv,
         EmptyInv, Stopped, Halted, HaltSteps, CheckStopping, CallLock, Goals, Home,
         Goto, Steps
<1>4. DataInv'
  BY DEF TypeOK, ControlInv, RegisterInv, HaltInv, EmptyInv, DataInv, HeldLive,
         BufferPrivate, CheckStopping, CallLock, Goals, Home, Goto, Steps
<1> QED BY <1>1, <1>2, <1>3, <1>4

\* hl_gc_safepoint.
LEMMA SafepointStep ==
    ASSUME IInv, ~LateDecrement, NEW t \in Threads, hl_gc_safepoint(t)
    PROVE  IInv'
<1> USE ThreadsAssumption DEF IInv, lockVars, worldVars, dataVars
<1>1. TypeOK'
  BY DEF TypeOK, ControlInv, LockInv, BlockInv, DepthInv, hl_gc_safepoint, Managed,
         gc_save_context, CallLock, Goals, Goto, Steps
<1>2. ControlInv'
  BY <1>1 DEF TypeOK, ControlInv, SeenInv, LockInv, BlockInv, DepthInv, RegisterInv,
         FlagInv, HolderSteps, LockShare, hl_gc_safepoint, Managed, gc_save_context,
         CallLock, Goals, Goto, Steps
<1>3. HaltInv'
  BY <1>1, <1>2 DEF TypeOK, ControlInv, SeenInv, LockInv, BlockInv, DepthInv,
         RegisterInv, FlagInv, HolderSteps, LockShare, HaltInv, ContextInv, StopInv,
         EmptyInv, Stopped, Halted, HaltSteps, hl_gc_safepoint, Managed,
         gc_save_context, CallLock, Goals, Goto, Steps
<1>4. DataInv'
  BY DEF TypeOK, ControlInv, RegisterInv, HaltInv, EmptyInv, DataInv, HeldLive,
         BufferPrivate, hl_gc_safepoint, Managed, gc_save_context, CallLock, Goals,
         Goto, Steps
<1> QED BY <1>1, <1>2, <1>3, <1>4

\* gc_stop_world(true) raises the flag before it looks at any thread.
LEMMA StopBeginStep ==
    ASSUME IInv, ~LateDecrement, NEW t \in Threads, StopBegin(t)
    PROVE  IInv'
<1> USE ThreadsAssumption DEF IInv, lockVars, worldVars, dataVars
<1>1. TypeOK'
  BY DEF TypeOK, ControlInv, LockInv, BlockInv, DepthInv, StopBegin,
         gc_save_context, StopsFor, Goto, Steps
<1>2. ControlInv'
  BY <1>1 DEF TypeOK, ControlInv, SeenInv, LockInv, BlockInv, DepthInv, RegisterInv,
         FlagInv, HolderSteps, LockShare, StopBegin, gc_save_context, StopsFor,
         Goto, Steps
<1>3. HaltInv'
  BY <1>1, <1>2 DEF TypeOK, ControlInv, SeenInv, LockInv, BlockInv, DepthInv,
         RegisterInv, FlagInv, HolderSteps, LockShare, HaltInv, ContextInv, StopInv,
         EmptyInv, Stopped, Halted, HaltSteps, StopBegin, gc_save_context, StopsFor,
         Goto, Steps
<1>4. DataInv'
  BY DEF TypeOK, ControlInv, RegisterInv, HaltInv, EmptyInv, DataInv, HeldLive,
         BufferPrivate, StopBegin, gc_save_context, StopsFor, Goto, Steps
<1> QED BY <1>1, <1>2, <1>3, <1>4

\* The end of the spin loop: every other registered thread is halted.
LEMMA StopEndStep ==
    ASSUME IInv, ~LateDecrement, NEW t \in Threads, StopEnd(t)
    PROVE  IInv'
<1> USE ThreadsAssumption DEF IInv, lockVars, worldVars, dataVars
<1>1. TypeOK'
  BY DEF TypeOK, ControlInv, LockInv, BlockInv, DepthInv, HolderSteps, LockShare,
         StopEnd, ClearBuffers, Goto, Steps
<1>2. ControlInv'
  <2>1. SeenInv'
    BY DEF TypeOK, ControlInv, SeenInv, LockInv, HolderSteps, StopEnd, ClearBuffers,
         Goto, Steps
  <2>2. LockInv'
    BY DEF TypeOK, ControlInv, SeenInv, LockInv, HolderSteps, StopEnd, ClearBuffers,
         Goto, Steps
  <2>3. BlockInv'
    BY DEF TypeOK, ControlInv, SeenInv, LockInv, HolderSteps, BlockInv, LockShare,
         StopEnd, ClearBuffers, Goto, Steps
  <2>4. DepthInv'
    BY DEF TypeOK, ControlInv, SeenInv, LockInv, HolderSteps, DepthInv, BlockInv,
         StopEnd, ClearBuffers, Goto, Steps
  <2>5. RegisterInv'
    BY DEF TypeOK, ControlInv, SeenInv, LockInv, HolderSteps, RegisterInv, BlockInv,
         StopEnd, ClearBuffers, Goto, Steps
  <2>6. FlagInv'
    BY DEF TypeOK, ControlInv, SeenInv, LockInv, HolderSteps, FlagInv, StopEnd,
         ClearBuffers, Goto, Steps
  <2> QED BY <2>1, <2>2, <2>3, <2>4, <2>5, <2>6 DEF ControlInv
<1>3. HaltInv'
  BY <1>1, <1>2 DEF TypeOK, ControlInv, SeenInv, LockInv, BlockInv, DepthInv,
         RegisterInv, FlagInv, HolderSteps, LockShare, HaltInv, ContextInv, StopInv,
         EmptyInv, Stopped, Halted, HaltSteps, StopEnd, ClearBuffers, Goto, Steps
<1>4. DataInv'
  BY DEF TypeOK, ControlInv, RegisterInv, HaltInv, EmptyInv, DataInv, HeldLive,
         BufferPrivate, StopEnd, ClearBuffers, Goto, Steps
<1> QED BY <1>1, <1>2, <1>3, <1>4

\* gc_stop_world(false).
LEMMA StartWorldStep ==
    ASSUME IInv, ~LateDecrement, NEW t \in Threads, StartWorld(t)
    PROVE  IInv'
<1> USE ThreadsAssumption DEF IInv, lockVars, worldVars, dataVars
<1>1. TypeOK'
  BY DEF TypeOK, ControlInv, LockInv, BlockInv, DepthInv, StartWorld, Goto, Steps
<1>2. ControlInv'
  BY <1>1 DEF TypeOK, ControlInv, SeenInv, LockInv, BlockInv, DepthInv, RegisterInv,
         FlagInv, HolderSteps, LockShare, StartWorld, Goto, Steps
<1>3. HaltInv'
  BY <1>1, <1>2 DEF TypeOK, ControlInv, SeenInv, LockInv, BlockInv, DepthInv,
         RegisterInv, FlagInv, HolderSteps, LockShare, HaltInv, ContextInv, StopInv,
         EmptyInv, Stopped, Halted, HaltSteps, StartWorld, Goto, Steps
<1>4. DataInv'
  BY DEF TypeOK, ControlInv, RegisterInv, HaltInv, EmptyInv, DataInv, HeldLive,
         BufferPrivate, StartWorld, Goto, Steps
<1> QED BY <1>1, <1>2, <1>3, <1>4

\* hl_gc_exclusive_end restarts the world with the outermost section only.
LEMMA ExclusiveEndStep ==
    ASSUME IInv, ~LateDecrement, NEW t \in Threads, hl_gc_exclusive_end(t)
    PROVE  IInv'
<1> USE ThreadsAssumption DEF IInv, lockVars, worldVars, dataVars
<1>1. TypeOK'
  BY DEF TypeOK, ControlInv, LockInv, BlockInv, DepthInv, HolderSteps, LockShare,
         hl_gc_exclusive_end, Goto, Steps
<1>2. ControlInv'
  BY <1>1 DEF TypeOK, ControlInv, SeenInv, LockInv, BlockInv, DepthInv, RegisterInv,
         FlagInv, HolderSteps, LockShare, hl_gc_exclusive_end, Goto, Steps
<1>3. HaltInv'
  BY <1>1, <1>2 DEF TypeOK, ControlInv, SeenInv, LockInv, BlockInv, DepthInv,
         RegisterInv, FlagInv, HolderSteps, LockShare, HaltInv, ContextInv, StopInv,
         EmptyInv, Stopped, Halted, HaltSteps, hl_gc_exclusive_end, Goto, Steps
<1>4. DataInv'
  BY DEF TypeOK, ControlInv, RegisterInv, HaltInv, EmptyInv, DataInv, HeldLive,
         BufferPrivate, hl_gc_exclusive_end, Goto, Steps
<1> QED BY <1>1, <1>2, <1>3, <1>4

\* The steps of an allocation under the lock.
LEMMA AllocStep ==
    ASSUME IInv, ~LateDecrement, NEW t \in Threads, 
              gc_check_mark(t) \/ Refill(t) \/ AllocFull(t) \/ HeapBound(t)
    PROVE  IInv'
<1> USE ThreadsAssumption DEF IInv, lockVars, worldVars, dataVars
<1>1. TypeOK'
  BY DEF TypeOK, ControlInv, LockInv, BlockInv, DepthInv, gc_check_mark, Refill,
         AllocFull, HeapBound, Goto, Steps
<1>2. ControlInv'
  <2>1. SeenInv'
    BY DEF TypeOK, ControlInv, SeenInv, LockInv, HolderSteps, gc_check_mark, Refill,
         AllocFull, HeapBound, Goto, Steps
  <2>2. LockInv'
    BY DEF TypeOK, ControlInv, SeenInv, LockInv, HolderSteps, gc_check_mark, Refill,
         AllocFull, HeapBound, Goto, Steps
  <2>3. BlockInv'
    BY DEF TypeOK, ControlInv, SeenInv, LockInv, HolderSteps, BlockInv, LockShare,
         gc_check_mark, Refill, AllocFull, HeapBound, Goto, Steps
  <2>4. DepthInv'
    BY DEF TypeOK, ControlInv, SeenInv, LockInv, HolderSteps, DepthInv, BlockInv,
         gc_check_mark, Refill, AllocFull, HeapBound, Goto, Steps
  <2>5. RegisterInv'
    BY DEF TypeOK, ControlInv, SeenInv, LockInv, HolderSteps, RegisterInv, BlockInv,
         gc_check_mark, Refill, AllocFull, HeapBound, Goto, Steps
  <2>6. FlagInv'
    BY DEF TypeOK, ControlInv, SeenInv, LockInv, HolderSteps, FlagInv,
         gc_check_mark, Refill, AllocFull, HeapBound, Goto, Steps
  <2> QED BY <2>1, <2>2, <2>3, <2>4, <2>5, <2>6 DEF ControlInv
<1>3. HaltInv'
  BY <1>1, <1>2 DEF TypeOK, ControlInv, SeenInv, LockInv, BlockInv, DepthInv,
         RegisterInv, FlagInv, HolderSteps, LockShare, HaltInv, ContextInv, StopInv,
         EmptyInv, Stopped, Halted, HaltSteps, gc_check_mark, Refill, AllocFull,
         HeapBound, Goto, Steps
<1>4. DataInv'
  BY DEF TypeOK, ControlInv, RegisterInv, HaltInv, EmptyInv, DataInv, HeldLive,
         BufferPrivate, gc_check_mark, Refill, AllocFull, HeapBound, Goto, Steps
<1> QED BY <1>1, <1>2, <1>3, <1>4

\* What managed code does without the lock.
LEMMA MutatorStep ==
    ASSUME IInv, ~LateDecrement, NEW t \in Threads, AllocFast(t) \/ Drop(t)
    PROVE  IInv'
<1> USE ThreadsAssumption DEF IInv, lockVars, worldVars, dataVars
<1>1. TypeOK'
  BY DEF TypeOK, ControlInv, LockInv, BlockInv, DepthInv, AllocFast, Managed, Drop,
         Goto, Steps
<1>2. ControlInv'
  <2>1. SeenInv'
    BY DEF TypeOK, ControlInv, SeenInv, LockInv, HolderSteps, AllocFast, Managed,
         Drop, Goto, Steps
  <2>2. LockInv'
    BY DEF TypeOK, ControlInv, SeenInv, LockInv, HolderSteps, AllocFast, Managed,
         Drop, Goto, Steps
  <2>3. BlockInv'
    BY DEF TypeOK, ControlInv, SeenInv, LockInv, HolderSteps, BlockInv, LockShare,
         AllocFast, Managed, Drop, Goto, Steps
  <2>4. DepthInv'
    BY DEF TypeOK, ControlInv, SeenInv, LockInv, HolderSteps, DepthInv, BlockInv,
         AllocFast, Managed, Drop, Goto, Steps
  <2>5. RegisterInv'
    BY DEF TypeOK, ControlInv, SeenInv, LockInv, HolderSteps, RegisterInv, BlockInv,
         AllocFast, Managed, Drop, Goto, Steps
  <2>6. FlagInv'
    BY DEF TypeOK, ControlInv, SeenInv, LockInv, HolderSteps, FlagInv, AllocFast,
         Managed, Drop, Goto, Steps
  <2> QED BY <2>1, <2>2, <2>3, <2>4, <2>5, <2>6 DEF ControlInv
<1>3. HaltInv'
  BY <1>1, <1>2 DEF TypeOK, ControlInv, SeenInv, LockInv, BlockInv, DepthInv,
         RegisterInv, FlagInv, HolderSteps, LockShare, HaltInv, ContextInv, StopInv,
         EmptyInv, Stopped, Halted, HaltSteps, AllocFast, Managed, Drop, Goto, Steps
<1>4. DataInv'
  BY DEF TypeOK, ControlInv, RegisterInv, HaltInv, EmptyInv, DataInv, HeldLive,
         BufferPrivate, AllocFast, Managed, Drop, Goto, Steps
<1> QED BY <1>1, <1>2, <1>3, <1>4

\* hl_global_lock touches nothing the collector reads.
LEMMA ExclusiveLockStep ==
    ASSUME IInv, ~LateDecrement, NEW t \in Threads, 
              ExclusiveLockCall(t) \/ ExclusiveLockTaken(t) \/ ExclusiveUnlock(t)
    PROVE  IInv'
<1> USE ThreadsAssumption DEF IInv, lockVars, worldVars, dataVars
<1>1. TypeOK'
  BY DEF TypeOK, ControlInv, LockInv, BlockInv, DepthInv, ExclusiveLockCall,
         Managed, ExclusiveLockTaken, ExclusiveUnlock, Goto, Steps
<1>2. ControlInv'
  <2>1. SeenInv'
    BY DEF TypeOK, ControlInv, SeenInv, LockInv, HolderSteps, ExclusiveLockCall,
         Managed, ExclusiveLockTaken, ExclusiveUnlock, Goto, Steps
  <2>2. LockInv'
    BY DEF TypeOK, ControlInv, SeenInv, LockInv, HolderSteps, ExclusiveLockCall,
         Managed, ExclusiveLockTaken, ExclusiveUnlock, Goto, Steps
  <2>3. BlockInv'
    BY DEF TypeOK, ControlInv, SeenInv, LockInv, HolderSteps, BlockInv, LockShare,
         ExclusiveLockCall, Managed, ExclusiveLockTaken, ExclusiveUnlock, Goto,
         Steps
  <2>4. DepthInv'
    BY DEF TypeOK, ControlInv, SeenInv, LockInv, HolderSteps, DepthInv, BlockInv,
         ExclusiveLockCall, Managed, ExclusiveLockTaken, ExclusiveUnlock, Goto,
         Steps
  <2>5. RegisterInv'
    BY DEF TypeOK, ControlInv, SeenInv, LockInv, HolderSteps, RegisterInv, BlockInv,
         ExclusiveLockCall, Managed, ExclusiveLockTaken, ExclusiveUnlock, Goto,
         Steps
  <2>6. FlagInv'
    BY DEF TypeOK, ControlInv, SeenInv, LockInv, HolderSteps, FlagInv,
         ExclusiveLockCall, Managed, ExclusiveLockTaken, ExclusiveUnlock, Goto,
         Steps
  <2> QED BY <2>1, <2>2, <2>3, <2>4, <2>5, <2>6 DEF ControlInv
<1>3. HaltInv'
  BY <1>1, <1>2 DEF TypeOK, ControlInv, SeenInv, LockInv, BlockInv, DepthInv,
         RegisterInv, FlagInv, HolderSteps, LockShare, HaltInv, ContextInv, StopInv,
         EmptyInv, Stopped, Halted, HaltSteps, ExclusiveLockCall, Managed,
         ExclusiveLockTaken, ExclusiveUnlock, Goto, Steps
<1>4. DataInv'
  BY DEF TypeOK, ControlInv, RegisterInv, HaltInv, EmptyInv, DataInv, HeldLive,
         BufferPrivate, ExclusiveLockCall, Managed, ExclusiveLockTaken,
         ExclusiveUnlock, Goto, Steps
<1> QED BY <1>1, <1>2, <1>3, <1>4

\* SpinPast: a thread whose gc_blocking is not zero is halted, and stays so
\* because it can only meet stopping_world set.
LEMMA SpinPastStep ==
    ASSUME IInv, ~LateDecrement, NEW t \in Threads, NEW u \in Threads, SpinPast(t, u)
    PROVE  IInv'
<1> USE ThreadsAssumption DEF IInv, lockVars, worldVars, dataVars
<1>1. TypeOK' /\ ControlInv' /\ DataInv'
  BY DEF TypeOK, ControlInv, SeenInv, LockInv, BlockInv, DepthInv, RegisterInv, FlagInv,
         LockShare, DataInv, HeldLive, BufferPrivate, SpinPast
<1>2. u # t => Halted(u)
  BY DEF TypeOK, ControlInv, SeenInv, LockInv, BlockInv, HaltInv, ContextInv, Halted,
         HaltSteps, HolderSteps, LockShare, Steps, SpinPast
<1>3. StopInv'
  BY <1>2 DEF TypeOK, ControlInv, LockInv, HolderSteps, HaltInv, StopInv, Stopped, Halted, SpinPast
<1>4. ContextInv' /\ EmptyInv'
  BY DEF HaltInv, ContextInv, EmptyInv, SpinPast
<1> QED BY <1>1, <1>3, <1>4 DEF HaltInv

\* Mark: every block some thread holds is shown by a saved context, and no
\* buffer reserves one.
LEMMA MarkStep ==
    ASSUME IInv, ~LateDecrement, NEW t \in Threads, Mark(t)
    PROVE  IInv'
<1> USE ThreadsAssumption DEF IInv, lockVars, worldVars, dataVars
<1>1. TypeOK'
  BY DEF TypeOK, Mark, Goto, Steps
<1>2. ControlInv'
  BY DEF TypeOK, ControlInv, SeenInv, LockInv, BlockInv, DepthInv, RegisterInv, FlagInv,
         HolderSteps, LockShare, Mark, Goto
<1>3. HaltInv'
  BY DEF TypeOK, ControlInv, LockInv, HolderSteps, HaltInv, ContextInv, StopInv, EmptyInv,
         Stopped, Halted, HaltSteps, Mark, Goto
<1>4. \A u \in Threads : held[u] \subseteq UNION {ctx[v] : v \in threads}
  <2> SUFFICES ASSUME NEW u \in Threads, NEW b \in held[u]
               PROVE  \E v \in threads : b \in ctx[v]
    OBVIOUS
  <2>1. u \in threads
    BY DEF ControlInv, RegisterInv
  <2>2. held[u] \subseteq ctx[u]
    BY <2>1 DEF HaltInv, ContextInv, StopInv, Stopped, Halted, Mark
  <2> QED BY <2>1, <2>2
<1>5. DataInv'
  BY <1>4 DEF HaltInv, EmptyInv, DataInv, HeldLive, BufferPrivate, Mark
<1> QED BY <1>1, <1>2, <1>3, <1>5

\* A delayed increment of gc_blocking reaches memory.
LEMMA DrainStep ==
    ASSUME IInv, NEW t \in Threads, Drain(t)
    PROVE  IInv'
<1> USE DEF IInv, lockVars, worldVars, dataVars
<1>1. TypeOK'
  BY DEF TypeOK, Drain
<1>2. ControlInv'
  BY DEF TypeOK, ControlInv, SeenInv, LockInv, BlockInv, DepthInv, RegisterInv, FlagInv,
         LockShare, Drain
<1>3. HaltInv' /\ DataInv'
  BY DEF HaltInv, ContextInv, StopInv, EmptyInv, Stopped, Halted, DataInv, HeldLive,
         BufferPrivate, Drain
<1> QED BY <1>1, <1>2, <1>3

LEMMA InitIInv == Init => IInv
<1> SUFFICES ASSUME Init PROVE IInv
  OBVIOUS
<1> USE ThreadsAssumption
<1>1. TypeOK
  BY DEF Init, TypeOK, Steps, Goals
<1>2. ControlInv
  BY DEF Init, ControlInv, SeenInv, LockInv, BlockInv, DepthInv, RegisterInv, FlagInv, HolderSteps
<1>3. HaltInv
  BY DEF Init, HaltInv, ContextInv, StopInv, EmptyInv, Stopped
<1>4. DataInv
  BY DEF Init, DataInv, HeldLive, BufferPrivate
<1> QED BY <1>1, <1>2, <1>3, <1>4 DEF IInv

LEMMA NextIInv == ~LateDecrement /\ IInv /\ [Next]_vars => IInv'
<1> SUFFICES ASSUME ~LateDecrement, IInv, [Next]_vars PROVE IInv'
  OBVIOUS
<1>1. CASE UNCHANGED vars
  BY <1>1 DEF vars, lockVars, worldVars, dataVars, IInv, TypeOK, ControlInv, SeenInv, LockInv,
     BlockInv, DepthInv, RegisterInv, FlagInv, HaltInv, ContextInv, StopInv, EmptyInv,
     Stopped, Halted, DataInv, HeldLive, BufferPrivate, LockShare
<1>2. ASSUME NEW t \in Threads, Call(t) PROVE IInv'
  BY <1>2, CallStep, RegisterStep, EnterBlockingStep, LeaveBlockingStep, SafepointStep,
     ExclusiveEndStep, MutatorStep, ExclusiveLockStep DEF Call
<1>3. ASSUME NEW t \in Threads, Progress(t) PROVE IInv'
  BY <1>3, TryAcquireStep, ContendedStep, AcquireStep, UnlockStep, AddThreadStep,
     RemoveThreadStep, CheckStoppingStep, DrainStep, StopBeginStep,
     SpinPastStep, StopEndStep, MarkStep, StartWorldStep, AllocStep,
     ExclusiveLockStep DEF Progress
<1> QED BY <1>1, <1>2, <1>3 DEF Next

LEMMA Invariance == ~LateDecrement => (Spec => []IInv)
<1> SUFFICES ASSUME ~LateDecrement PROVE Spec => []IInv
  OBVIOUS
<1>1. Init => IInv
  BY InitIInv
<1>2. IInv /\ [Next]_vars => IInv'
  BY NextIInv
<1> QED BY <1>1, <1>2, PTL DEF Spec

\* The types of all variables (gc_blocking, lock depth and section depth never
\* go below zero) for any threads, blocks and bounds.
THEOREM TypeCorrect == ~LateDecrement => (Spec => []TypeOK)
<1>1. IInv => TypeOK
  BY DEF IInv
<1> QED BY <1>1, Invariance, PTL

\* gc_stop_world stops the world: whoever marks or is inside an exclusive
\* section holds the lock, and no other registered thread runs managed code.
THEOREM WorldStoppedCorrect == ~LateDecrement => (Spec => []WorldStopped)
<1>1. IInv => WorldStopped
  BY DEF IInv, ControlInv, LockInv, HolderSteps, HaltInv, StopInv, Halted, HaltSteps,
     WorldStopped, Stopped
<1> QED BY <1>1, Invariance, PTL

\* No collection frees a block that is in the frames of a thread.
THEOREM HeldLiveCorrect == ~LateDecrement => (Spec => []HeldLive)
<1>1. IInv => HeldLive
  BY DEF IInv, DataInv
<1> QED BY <1>1, Invariance, PTL

\* No block is handed out twice through the allocation buffers.
THEOREM BufferPrivateCorrect == ~LateDecrement => (Spec => []BufferPrivate)
<1>1. IInv => BufferPrivate
  BY DEF IInv, DataInv
<1> QED BY <1>1, Invariance, PTL
=============================================================================
