CONSTANTS
    Keys = {k1, k2}
    Events = {e1}
    MaxWrites = 2
    MaxTroubles = 3
SPECIFICATION Spec
SYMMETRY KeySymmetry
INVARIANTS
    TypeOK
    Recoverable
    RewindExact
    InterruptedFate
    EnginesAgree
CHECK_DEADLOCK FALSE
