CONSTANTS
    t1 = t1
    t2 = t2
    r1 = r1
    Threads = {t1, t2}
    Readers = {r1}
    Nobody = Nobody
    Room = 1
    Tables <- MCTables
    First <- MCFirst
    Capacity <- MCCapacity
    Shapes <- AllShapes
    MaxRevision = 3
    StaleTypes = FALSE
SYMMETRY Symmetric
SPECIFICATION Spec
INVARIANTS TypeOK CodeAlive CodeAccounted NothingLeft ReleasedUnused
PROPERTY ImplementsAtomic
