\* Three events, and two workers that fail or stop the process under each other.
SPECIFICATION Spec
CONSTANTS
    Events = {1, 2, 3}
    Workers = {w1, w2}
    NoEvent = NoEvent
    NoWorker = NoWorker
    BufferSize = 1
    QueueSize = 1
    DeadLetterSize = 1
    MaxRetries = 1
    Redeliverable = {1}
SYMMETRY WorkerSymmetry
INVARIANTS
    TypeOK
    OnePlace
    AttemptsBounded
    InOrder
    DownHoldsNothing
PROPERTIES
    Delivery
