\* A stop() waits while an automatic restart starts the process.
SPECIFICATION Spec
CONSTANTS
    Callers = {c1, c2}
    Workers = {w1}
    Restarters = {r1}
    BgStop = bg
    NoTask = NoTask
    RestartPolicy = "always"
    MaxRestarts = 1
    MaxFailures = 1
    MaxLifetime = TRUE
    IdleTimeout = FALSE
    QueueSize = 1
PROPERTY HaltedStaysDown
