\* Three mark threads on small heaps.
CONSTANTS
    a = a  b = b  c = c  d = d  e = e
    Objects = {a, b, c, d, e}
    NoPtr = {e}
    Graphs <- MCGraphs
    gc_mark_threads = 3
    Null = Null
SPECIFICATION FairSpec
INVARIANTS TypeOK MarkComplete NoFatal
PROPERTY WaitEnds
