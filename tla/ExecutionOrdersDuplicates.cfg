SPECIFICATION Spec
CONSTANTS
    t1 = t1
    t2 = t2
    o1 = o1
    None = None
    Tasks <- TwoTasks
    Opps = {o1}
    Costs = {1}
    MaxExposure = 2
    MaxSingle = 1
    MaxDaily = 1
    AutoMax = 1
    MaxOrders = 4
    MaxCalls = 4
    Simulated = {2}
SYMMETRY TaskSymmetry
INVARIANT NoDuplicateOrders
CHECK_DEADLOCK FALSE
