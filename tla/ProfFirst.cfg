\* A drain between the publication of a thread's first chunk and its first position.
CONSTANTS
    t1 = t1  t2 = t2
    Threads = {t1, t2}
    ChunkCount = 3  ChunkSize = 3
    MinCall = FALSE
    Kinds = {"event"}
    StaleWriters = FALSE  FirstWindow = TRUE
    MaxRecords <- ThreeOne  MaxSessions = 1  MaxToggles = 0
    Nobody = Nobody
SPECIFICATION Spec
INVARIANT DrainExact
CHECK_DEADLOCK FALSE
