\* A session starts while a thread is inside writer_begin.
CONSTANTS
    t1 = t1  t2 = t2
    Threads = {t1, t2}
    ChunkCount = 3  ChunkSize = 3
    MinCall = FALSE
    Kinds = {"event"}
    StaleWriters = TRUE  FirstWindow = FALSE
    MaxRecords <- OneOne  MaxSessions = 2  MaxToggles = 0
    Nobody = Nobody
SPECIFICATION Spec
INVARIANT WriterCurrent
CHECK_DEADLOCK FALSE
