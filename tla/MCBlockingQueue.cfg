CONSTANTS
    p1 = p1
    c1 = c1
    c2 = c2
    k1 = k1
    k2 = k2
    Producers <- MCProducers
    Consumers <- MCConsumers
    Closers <- MCClosers
    MaxPushes = 4
    Limits = {0, 1}
    DefaultQueueSize = 2
    DefaultBatchSize = 1
SPECIFICATION FairSpec
INVARIANTS FIFO NoLostWakeup OnlyTheLoopClosesC
PROPERTIES Delivered CloseReleasesConsumers CloseReturns
CHECK_DEADLOCK FALSE
