\* Two calls, three sessions and a renewed token.
SPECIFICATION FairSpec
CONSTANTS
    Calls = {c1, c2}
    Impatient = {c1}
    MaxSessions = 3
    MaxRenewals = 1
INVARIANTS
    TypeOK
    NoOrphan
    ExitLeavesNothing
    RetiredFinishes
PROPERTIES
    HealthyKept
    FailsFast
CHECK_DEADLOCK FALSE
