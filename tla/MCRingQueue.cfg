CONSTANTS
    Items = {a, b}
    Zero = zero
    Panic = panic
    Capacities = {0, 1, 2}
    DefaultCapacity = 2
    MaxLen = 4
SPECIFICATION Spec
INVARIANTS TypeOK
PROPERTIES IsFifo GrowsOnlyWhenFull
CHECK_DEADLOCK FALSE
