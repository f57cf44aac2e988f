SPECIFICATION FairSpec
CONSTANTS
    PageWords = 4
    NPages = 2
    FIRST_NI_SYSCALL = 2
    SEVENTH_NI_SYSCALL = 3
    NiSyscalls <- UnusedNumbers
    Text <- TextWords
    PML4 <- AllZero
    PDP <- AllZero
    PDE <- HighBit
    PTE <- LowBit
    t1 = t1
    u1 = u1
    u2 = u2
    Admins <- TwoAdmins
    Threads <- OneThread
    SysNums <- OneUsedOneUnused
    Machines <- SomeMachines
    MaxLoads = 2
CHECK_DEADLOCK FALSE
INVARIANTS
    TypeOK
    SearchReadsPresentPages
    SearchFindsFirstTable
    DispatcherLeadsToModule
    OrderlyRemovalIsSafe
    CleanupWaitsForReaders
    DeviceGoesWithModule
    TimerGoesWithModule
PROPERTIES
    RemovalTerminates
