\* hl_blocking(false) on a machine whose store buffer delays its decrement.
CONSTANTS
    t1 = t1  t2 = t2  b1 = b1  b2 = b2
    Threads = {t1, t2}
    Blocks = {b1, b2}
    NoThread = NoThread
    MaxNest = 2
    MaxExclusive = 2
    LateDecrement = TRUE
SPECIFICATION Spec
CHECK_DEADLOCK FALSE
SYMMETRY ThreadSymmetry
INVARIANT WorldStopped
