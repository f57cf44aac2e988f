SPECIFICATION Spec
CONSTANTS
    NULL = NULL
    u1 = u1
    u2 = u2
    p1 = p1
    c1 = c1
    c2 = c2
    c3 = c3
    w1 = w1
    w2 = w2
    r1 = r1
    Uids <- TwoUids
    Progs <- OneProg
    HashSize = 2
    BucketOf <- TwoBuckets
    Cells <- ThreeCells
    Writers <- TwoWriters
    Readers <- OneReader
    ListMax <- OneOrThree
SYMMETRY Symmetry
INVARIANTS
    NoUseAfterFree
    LengthsExact
    NoMissedIdentity
    ListingFitsWithoutDuplicates
    NoLeak
