SPECIFICATION Spec
CONSTANTS
    Main = Main
    s1 = s1
    q1 = q1
    dlq = dlq
    NoDLQ = NoDLQ
    Partitions = {in}
    MaxOffset = 0
    Queues = {s1, q1, dlq}
    AsyncQueues = {q1}
    OutputQueues <- MixedOutputs
    DeadLetterQueue = NoDLQ
    Invalid <- NoMessages
    AppBools = {}
    AppLists <- MixedLists
    AppRaises = FALSE
    OrderedReports = TRUE
    DeleteAttempts = 2
    Rivals = FALSE
    MaxAttempts = 1
    MaxRestarts = 0
INVARIANT AtLeastOnce
