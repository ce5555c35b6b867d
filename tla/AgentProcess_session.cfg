\* A stop() arrives while a start() builds the agent.
SPECIFICATION Spec
CONSTANTS
    Callers = {c1, c2}
    Workers = {w1}
    Restarters = {r1}
    BgStop = bg
    NoTask = NoTask
    RestartPolicy = "never"
    MaxRestarts = 0
    MaxFailures = 1
    MaxLifetime = FALSE
    IdleTimeout = FALSE
    QueueSize = 1
PROPERTY SessionEndsFirst
