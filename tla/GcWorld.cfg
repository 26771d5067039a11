\* The stop-the-world protocol, increments of gc_blocking delayed. It may
\* deadlock: an allocation under hl_global_lock waits for a thread that waits
\* for that lock.
CONSTANTS
    t1 = t1  t2 = t2  b1 = b1  b2 = b2
    Threads = {t1, t2}
    Blocks = {b1, b2}
    NoThread = NoThread
    MaxNest = 2
    MaxExclusive = 2
    LateDecrement = FALSE
SPECIFICATION FairSpec
CHECK_DEADLOCK FALSE
INVARIANTS TypeOK WorldStopped HeldLive BufferPrivate
 
