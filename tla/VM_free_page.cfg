SPECIFICATION Spec
CONSTANTS
    code_pool = code_pool
    heap_pool = heap_pool
    f1 = f1
    f2 = f2
    f3 = f3
    f4 = f4
    f5 = f5
    f6 = f6
    f7 = f7
    absent = absent
    ENTRIES = 8
    Frames = {f1, f2, f3, f4, f5, f6, f7}
    Directory = 4
    SharedTable = f1
    Absent = absent
    Stale = {}
    Values = {0, 1}
    Zero = 0
    PoolOrder <- Order
    Base <- BaseOf
    Size <- SizeOf
    RemsStart = {96}
    Requests = {20, 40}
    MaxRegions = 3
    Budget <- BudgetOf
    Direct <- FaultAddr
INVARIANT ReleasedUnmapped
CHECK_DEADLOCK FALSE
