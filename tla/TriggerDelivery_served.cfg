\* A process that is suspended, stopped, restarted and then left to run.
SPECIFICATION LiveSpec
CONSTANTS
    Events = {1, 2}
    Workers = {w1}
    NoEvent = NoEvent
    NoWorker = NoWorker
    BufferSize = 1
    QueueSize = 1
    DeadLetterSize = 1
    MaxRetries = 1
    Redeliverable = {}
PROPERTY Served
