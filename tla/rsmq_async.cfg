SPECIFICATION FairSpec
CONSTANTS
    Main = Main
    s1 = s1
    q1 = q1
    dlq = dlq
    NoDLQ = NoDLQ
    Partitions = {in}
    MaxOffset = 0
    Queues = {s1, q1, dlq}
    AsyncQueues = {q1}
    OutputQueues <- AsyncOutputs
    DeadLetterQueue = NoDLQ
    Invalid <- NoMessages
    AppBools = {TRUE, FALSE}
    AppLists <- AsyncLists
    AppRaises = TRUE
    OrderedReports = FALSE
    DeleteAttempts = 2
    Rivals = TRUE
    MaxAttempts = 2
    MaxRestarts = 1
INVARIANTS
    TypeOK
    AtLeastOnce
