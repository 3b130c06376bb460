SPECIFICATION FairSpec
CONSTANTS
    Main = Main
    s1 = s1
    q1 = q1
    q2 = q2
    dlq = dlq
    NoDLQ = NoDLQ
    Partitions = {p0, p1}
    MaxOffset = 1
    Queues = {s1, q1, q2, dlq}
    AsyncQueues = {}
    OutputQueues <- SyncOutputs
    DeadLetterQueue = dlq
    Invalid <- LastMessages
    AppBools = {TRUE, FALSE}
    AppLists <- SyncLists
    AppRaises = TRUE
    StopOnFailure = TRUE
    OrderedReports = TRUE
    EnqueueMayFail = FALSE
    MaySignal = TRUE
    MaxRestarts = 1
INVARIANTS
    AtLeastOnce
    CleanStop
    GracefulShutdown
PROPERTIES
    Progress
    ImplementsDelivery
