CONSTANTS
    Producers = {p1}
    Consumers = {c1}
    Closers = {k1}
    MaxPushes = 4
    Limits = {0}
    DefaultQueueSize = 2
    DefaultBatchSize = 1
SPECIFICATION Spec
INVARIANTS ListIntact
PROPERTIES IsBlockingQueue
CHECK_DEADLOCK FALSE
