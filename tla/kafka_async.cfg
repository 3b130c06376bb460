SPECIFICATION FairSpec
CONSTANTS
    Main = Main
    s1 = s1
    q1 = q1
    q2 = q2
    dlq = dlq
    NoDLQ = NoDLQ
    Partitions = {p0}
    MaxOffset = 2
    Queues = {s1, q1, q2, dlq}
    AsyncQueues = {q1, q2}
    OutputQueues <- TwoOutputs
    DeadLetterQueue = NoDLQ
    Invalid <- LastMessages
    AppBools = {TRUE, FALSE}
    AppLists <- EitherList
    AppRaises = TRUE
    StopOnFailure = TRUE
    OrderedReports = FALSE
    EnqueueMayFail = TRUE
    MaySignal = TRUE
    MaxRestarts = 1
INVARIANTS
    TypeOK
    LastCommittedSettled
    StopDrained
PROPERTIES
    KillEnds
    FailureEnds
