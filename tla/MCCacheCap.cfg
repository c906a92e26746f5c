CONSTANTS
    Users = {u1}
    Keys = {a, b}
    Batchers = {u1}
    Durations <- MCLruDurations
    Caps <- MCLruCaps
    Second = 1
    LookBack = 2
    Shift = 3
    Never = 99
    FirstNow = 3
    MaxNow = 5
    MaxCalls = 3
SPECIFICATION Spec
INVARIANTS CapHolds
\* the clock and the calls are bounded
CHECK_DEADLOCK FALSE
