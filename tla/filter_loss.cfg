SPECIFICATION Spec
CONSTANTS
    Main = Main
    s1 = s1
    q1 = q1
    q2 = q2
    dlq = dlq
    NoDLQ = NoDLQ
    Partitions = {p0}
    MaxOffset = 2
    Queues = {s1, q1, q2, dlq}
    AsyncQueues = {q1}
    OutputQueues <- OneOutput
    DeadLetterQueue = NoDLQ
    Invalid <- NoMessages
    AppBools = {TRUE}
    AppLists <- OneList
    AppRaises = TRUE
    StopOnFailure = TRUE
    OrderedReports = TRUE
    EnqueueMayFail = FALSE
    MaySignal = FALSE
    MaxRestarts = 2
INVARIANT AtLeastOnce
