SPECIFICATION FairSpec
CONSTANTS
    Main = Main
    z1 = z1
    s1 = s1
    NoDLQ = NoDLQ
    Partitions = {c1, c2}
    MaxOffset = 1
    Queues = {z1, s1}
    AsyncQueues = {}
    ZMQQueues = {z1}
    OutputQueues <- OneReply
    DeadLetterQueue = z1
    Invalid <- SecondRequests
    AppBools = {FALSE}
    AppLists <- ReplyLists
    AppRaises = TRUE
    MaxRestarts = 1
INVARIANTS
    TypeOK
    SuccessIsAnswered
PROPERTIES
    AnsweredOrEnds
    KillEnds
