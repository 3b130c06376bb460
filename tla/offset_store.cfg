SPECIFICATION Spec
CONSTANTS
    Main = Main
    Partitions = {p0, p1}
    MaxOffset = 1
    Queues = {q1}
    AsyncQueues = {}
    StopOnFailure = TRUE
    MaxRebalances = 2
INVARIANTS
    TypeOK
    HighWaterMark
    NothingSkipped
PROPERTY
    StoredNeverRegresses
