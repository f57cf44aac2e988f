SPECIFICATION FairSpec
CONSTANTS
    t1 = t1
    t2 = t2
    a1 = a1
    a2 = a2
    Threads <- TwoThreads
    Admins <- OneAdmin
    MaxArgs <- MaxRequests
    Signalled <- OneSignalled
INVARIANTS
    TypeOK
    BlockedCountExact
    ActiveMonitorHasTimer
    TimerSetupOnIdleTimer
    NoLostWakeup
PROPERTIES
    SleepersAreWoken
    OffReleasesEverybody
    LoneThreadGetsThrough
    ImplementsRateLimiter
