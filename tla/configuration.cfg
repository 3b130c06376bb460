SPECIFICATION MCSpec
CONSTANTS
    q1 = q1
    q2 = q2
    d = d
    e1 = e1
    e2 = e2
    NoDLQ = NoDLQ
    QueueNames = {q1, q2, d}
    Apps = {e1, e2}
    Lists = {l1, l2}
    InputQueue <- Inputs
    DeadLetterQueue <- DeadLetters
    supported_profiles <- Shipped
    Configs <- QueueConfigs
    OutputQueues <- FirstOutputs
    Wirings <- QueueWirings
    EnvVars <- Variables
INVARIANTS
    TypeOK
    BuiltConnects
    ConnectedOnce
    HandlerAndModel
    ConfiguredWins
    ConnectedAlike
CHECK_DEADLOCK FALSE
