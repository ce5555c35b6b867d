CONSTANTS
    Calls = {c1, c2, c3}
    Keys = {k1}
    Nobody = Nobody
    MaxConcurrent = 3
    Threshold = 2
    MaxFaults = 3
    MaxResets = 1
SPECIFICATION Spec
INVARIANTS
    TypeOK
    OneProbe
    OneFlight
PROPERTIES
    CircuitCloses
