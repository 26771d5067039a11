\* A pool that one thread fills while both may pause or resume.
CONSTANTS
    t1 = t1  t2 = t2
    Threads = {t1, t2}
    ChunkCount = 2  ChunkSize = 3
    MinCall = FALSE
    Kinds = {"enter"}
    StaleWriters = FALSE  FirstWindow = FALSE
    MaxRecords <- ThreeNone  MaxSessions = 1  MaxToggles = 1
    Nobody = Nobody
SPECIFICATION FairSpec
PROPERTIES StopReturns StallEnds
CHECK_DEADLOCK FALSE
