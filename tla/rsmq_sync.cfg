SPECIFICATION FairSpec
CONSTANTS
    Main = Main
    s1 = s1
    q1 = q1
    dlq = dlq
    NoDLQ = NoDLQ
    Partitions = {in}
    MaxOffset = 1
    Queues = {s1, q1, dlq}
    AsyncQueues = {}
    OutputQueues <- SyncOutputs
    DeadLetterQueue = dlq
    Invalid <- LastMessages
    AppBools = {TRUE, FALSE}
    AppLists <- SyncLists
    AppRaises = TRUE
    OrderedReports = TRUE
    DeleteAttempts = 2
    Rivals = TRUE
    MaxAttempts = 1
    MaxRestarts = 1
INVARIANTS
    AtLeastOnce
    DoneIsDeleted
PROPERTIES
    ImplementsDelivery
    Redelivered
    KillEnds
