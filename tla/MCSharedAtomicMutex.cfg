CONSTANTS
    Threads = {t1, t2, t3}
    SharedSize = 4
    UniqueSize = 4
SPECIFICATION FairSpec
INVARIANTS MutualExclusion CountsExact
PROPERTIES WriterPreference WriterProgress ReaderProgress RefinesReadWriteLock
