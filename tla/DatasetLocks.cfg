\* Three tasks, two datasets, nested calls of any ids, and a registry that prunes
\* as soon as it has an entry.
CONSTANTS
    Task = {t1, t2, t3}
    Id = {1, 2}
    MaxId = 2
    Mutex = {m1, m2, m3}
    PruneThreshold = 1
    MaxDepth = 2
    NoTask = NoTask
    NoMutex = NoMutex
SPECIFICATION Spec
SYMMETRY Interchangeable
INVARIANTS TypeOK Exclusive NoLostPermit NoCircularWait
PROPERTY ImplementsAbstractLock
