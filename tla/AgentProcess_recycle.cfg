\* A process that recycles itself and one caller that starts and stops it.
SPECIFICATION LiveSpec
CONSTANTS
    Callers = {c1}
    Workers = {w1}
    Restarters = {r1}
    BgStop = bg
    NoTask = NoTask
    RestartPolicy = "always"
    MaxRestarts = 1
    MaxFailures = 2
    MaxLifetime = TRUE
    IdleTimeout = TRUE
    QueueSize = 1
INVARIANTS
    TypeOK
PROPERTIES
    NoEventSleeps
    FailureIsAttended
    CallsReturn
