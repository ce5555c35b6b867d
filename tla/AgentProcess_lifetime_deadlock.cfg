\* The background stop of max_lifetime meets a caller's stop().
SPECIFICATION LiveSpec
CONSTANTS
    Callers = {c1}
    Workers = {w1}
    Restarters = {r1}
    BgStop = bg
    NoTask = NoTask
    RestartPolicy = "on_failure"
    MaxRestarts = 1
    MaxFailures = 1
    MaxLifetime = TRUE
    IdleTimeout = FALSE
    QueueSize = 1
PROPERTY CallsReturn
