\* An event is injected while a stop tears the process down.
SPECIFICATION Spec
CONSTANTS
    Events = {1, 2}
    Workers = {w1}
    NoEvent = NoEvent
    NoWorker = NoWorker
    BufferSize = 1
    QueueSize = 1
    DeadLetterSize = 1
    MaxRetries = 0
    Redeliverable = {}
PROPERTY StopEmptiesQueue
