SPECIFICATION Spec
CONSTANTS
    HZ = 2
    UIntRange = 1024
    Nobody = Nobody
    t1 = t1
    t2 = t2
    t3 = t3
    Callers <- ThreeCallers
    Delays <- TwoDelays
SYMMETRY Symmetry
INVARIANTS
    PeakIsMaximum
