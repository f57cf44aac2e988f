SPECIFICATION FairSpec
CONSTANTS
    NULL = NULL
    s1 = s1
    s2 = s2
    bucket = bucket
    c1 = c1
    c2 = c2
    c3 = c3
    w1 = w1
    w2 = w2
    r1 = r1
    SysNums <- TwoSysNums
    BucketOf <- SharedBucket
    Cells <- ThreeCells
    Writers <- TwoWriters
    Readers <- OneReader
INVARIANTS
    TypeOK
    NoUseAfterFree
    RegistryConsistent
    CallsItsOwnOriginal
    NoLeak
PROPERTIES
    DeregisterTerminates
