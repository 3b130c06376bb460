SPECIFICATION MCSpec
CONSTANTS
    e1 = e1
    e2 = e2
    q1 = q1
    q2 = q2
    dlq = dlq
    Nowhere = Nowhere
    Engines = {e1, e2}
    Queues = {q1, q2, dlq}
    InputQueue <- Inputs
    OutputQueue <- Outputs
    DeadLetterQueue = dlq
    FirstQueue = q1
    Profiles <- QueueProfiles
    Arrivals <- Messages
    Answers <- Returned
INVARIANTS
    RoundTrip
    DeadLetterKept
CHECK_DEADLOCK FALSE
