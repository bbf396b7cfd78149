SPECIFICATION SchedSpec
CONSTANTS
    SChan = {ch1, ch2}
    CellSize = 2
    HighWater = 3
    LowWater = 2
    SizeT = 64
    IntMax = 9
    MaxFlush = 1
    Marks <- MCMarks
    Factors = {1}
    CellBudget = 3
    DestroyBudget = 0
PROPERTY PendingServed
CHECK_DEADLOCK FALSE
