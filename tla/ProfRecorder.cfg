\* Two sessions with a pause or a resume, in which calls are held back, taken back
\* and counted. The second thread records its pauses and resumes only.
CONSTANTS
    t1 = t1  t2 = t2
    Threads = {t1, t2}
    ChunkCount = 2  ChunkSize = 3
    MinCall = TRUE
    Kinds = {"enter", "exit", "frame"}
    StaleWriters = FALSE  FirstWindow = FALSE
    MaxRecords <- TwoNone  MaxSessions = 2  MaxToggles = 1
    Nobody = Nobody
SPECIFICATION Spec
INVARIANTS TypeOK DrainExact ChunksAccounted FinalDrain StoppedQuiet WriterCurrent
CHECK_DEADLOCK FALSE
