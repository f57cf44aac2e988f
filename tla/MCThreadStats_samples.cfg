SPECIFICATION Spec
CONSTANTS
    HZ = 2
    UIntRange = 2048
    MaxBlocked = 2
    MaxJiffies = 7
INVARIANTS
    TypeOK
    StatisticsCoherent
    
PROPERTIES
    EpochsAreOneSecondApart
