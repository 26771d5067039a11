\* The root table through two growths, with collisions and duplicates; pages of
\* every kind; three processes and three chunks, enough for a chunk to leave and
\* come back while a process is between its loads and its compare-and-swap. The
\* behaviours of the pool end with the last tag.
CONSTANTS
    r1 = r1  r2 = r2  r3 = r3  NoOwner = NoOwner  w1 = w1
    Addrs = {r1, r2, r3}
    Owners = {NoOwner, w1}
    Hash <- MCHash
    FirstMax = 1
    MaxRoots = 4
    FirstBlock = 1
    MaxBlocks = 6
    MaxRequest = 3
    p1 = p1  p2 = p2  p3 = p3
    Procs = {p1, p2, p3}
    ChunkCount = 3
    MaxTag = 5
SYMMETRY Symmetry
SPECIFICATION StructuresSpec
CHECK_DEADLOCK FALSE
INVARIANTS IndexExact PageTypeOK RunsFree SweepExact LookupExact RunNotEmpty PoolTypeOK LinksExact CountExact
PROPERTIES SameAsScan ImplementsStack
