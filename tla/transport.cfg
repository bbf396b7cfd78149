SPECIFICATION Spec
CONSTANTS
    SChan = {ch1, ch2}
    CellSize = 2
    HighWater = 3
    LowWater = 2
    SizeT = 64
    IntMax = 9
    MaxFlush = 1
    Marks <- MCMarks
    Factors = {1}
    CellBudget = 2
    DestroyBudget = 2
    Slot = {s1, s2}
    Circ = {k1, k2}
    Hop <- MCHop
    OwnId = {1}
    PeerId = {9}
    UInt = 5
    FStream = {1, 2}
    CStart = 4
    CMin = 2
    CInc = 2
    SStart = 2
    SInc = 2
    QHigh = 2
    QLow = 1
    TooFull = 0
    AppData = 3
INVARIANTS PendingExact OutbufBounded SchedNoLostWakeup NoDanglingChannel ReservedWhileDestroyQueued NeverKilled CircWindowConserved
PROPERTIES ParkedWithoutCells CellsFlushed WaitEnds AppDataRead
CHECK_DEADLOCK FALSE
