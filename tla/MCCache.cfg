CONSTANTS
    Users = {u1, u2}
    Keys = {a, b}
    Batchers = {u1}
    Durations <- MCDurations
    Caps <- MCCaps
    Second = 1
    LookBack = 2
    Shift = 3
    Never = 99
    FirstNow = 3
    MaxNow = 5
    MaxCalls = 2
SPECIFICATION FairSpec
INVARIANTS BooksAgree LruBooks Scheduled
PROPERTIES ExpiredLeave CloseEndsSweeper
\* the clock and the calls are bounded, and a closed cache stops
CHECK_DEADLOCK FALSE
