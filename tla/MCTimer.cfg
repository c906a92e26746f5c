CONSTANTS
    a = a
    b = b
    Entries <- MCEntries
    Period <- MCPeriod
    Times <- MCTimes
    Singleton <- MCSingleton
    FirstStatus <- MCFirstStatus
    Quick = FALSE
    MaxInt64 = 99
    MaxTicks = 3
    MaxCalls = 1
    MaxJobs = 2
SPECIFICATION FairSpec
INVARIANTS NextIsHead Kept OneSingleton TimesKept OnTime
PROPERTIES Spaced ProceedEnds
CHECK_DEADLOCK FALSE
