CONSTANTS
    Producers = {p1, p2}
    Consumers = {c1}
    Closers = {}
    MaxPushes = 2
    Limits = {0}
    DefaultQueueSize = 2
    DefaultBatchSize = 1
SPECIFICATION Spec
INVARIANTS NothingLost
CHECK_DEADLOCK FALSE
