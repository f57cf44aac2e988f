SPECIFICATION FairSpec
CONSTANTS
    t1 = t1
    t2 = t2
    a1 = a1
    a2 = a2
    Threads <- TwoThreads
    Admins <- TwoAdmins
    MaxArgs <- MaxZeroOrOne
    Signalled <- OneSignalled
PROPERTIES
    SleepersAreWoken
