SPECIFICATION Spec
CONSTANTS
    NULL = NULL
    root = root
    user = user
    u1 = u1
    g1 = g1
    g2 = g2
    Procs <- TwoProcs
    Root <- OneRoot
    NR_syscalls = 1
    Uids <- OneUid
    Progs <- TwoProgs
    Limits <- SomeLimits
    DefaultMax = 1
SYMMETRY Symmetry
INVARIANTS
    TypeOK
    ListingFitsTheArray
    QuietListingIsComplete
    BuffersAreFreed
PROPERTIES
    OnlyRootChanges
