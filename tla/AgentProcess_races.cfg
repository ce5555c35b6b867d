\* Background stops, restarts that overlap, and a caller, at one lock.
SPECIFICATION Spec
CONSTANTS
    Callers = {c1}
    Workers = {w1}
    Restarters = {r1, r2}
    BgStop = bg
    NoTask = NoTask
    RestartPolicy = "on_failure"
    MaxRestarts = 1
    MaxFailures = 1
    MaxLifetime = TRUE
    IdleTimeout = FALSE
    QueueSize = 1
SYMMETRY RestarterSymmetry
INVARIANTS
    LockIsExclusive
    QuiescentWhenDown
    DrainEnds
    RestartsAreBounded
