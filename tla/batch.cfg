SPECIFICATION FairBatchSpec
CONSTANTS
    Main = Main
    q1 = q1
    NoDLQ = NoDLQ
    Partitions = {p0, p1}
    MaxOffset = 1
    BatchSize = 2
    Queues = {q1}
    AsyncQueues = {q1}
    OutputQueues <- OneOutput
    DeadLetterQueue = q1
    Invalid <- LastOfOne
    AppBools = {FALSE}
    AppLists <- OneList
    AppRaises = FALSE
    StopOnFailure = TRUE
    OrderedReports = TRUE
    EnqueueMayFail = FALSE
    MaySignal = TRUE
    MaxRestarts = 0
INVARIANTS
    BatchAtLeastOnce
    BatchStopDrained
PROPERTIES
    KillEnds
    BatchProgress
