CONSTANTS
    Kinds = {"avl"}
    Orders <- MCOrders
    Degrees = {3, 4}
    TreePairs <- MCTreePairs
    AvlPairs <- MCAvlPairs
    BTreePairs <- MCBTreePairs
    Batches <- MCBatches
    Probes <- MCProbes
    Resorts = FALSE
    UsesCleared = FALSE
    ListValues = {0, 1, 2}
    Arguments <- MCArguments
    MaxLen = 4
    MapKeys = {1, 2, 3}
    MapPairs <- MCMapPairs
    RingValues = {1}
    RingCaps <- MCRingCaps
    RingTurns <- MCRingTurns
    Users = {u1, u2}
    Maps = {"m1", "m2"}
    HashKeys = {1}
    NilValue = 0
    PutValues = {0, 1}
    Merges <- MCMerges
    MaxCalls = 2
    Nodes = {1, 2, 3, 4, 5, 6}
    LoopPairs <- MCLoopPairs
    RemovedKeys = {3}
    AskedKeys = {0, 3}
    LoopOrders <- MCLoopOrders
SPECIFICATION Spec
INVARIANTS NoPanic
\* no call comes after a panic
CHECK_DEADLOCK FALSE
