\* Two threads, two of the three keys in one bucket.
CONSTANTS
    Threads = {t1, t2}
    Keys <- MCKeys
    Values = {v1, empty}
    Empty = empty
    Nil = nil
    Nobody = nobody
SPECIFICATION FairSpec
INVARIANTS BucketExclusive
PROPERTIES AtomicStore CallReturns
