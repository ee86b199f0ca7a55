SPECIFICATION Spec
CONSTANTS
    NetIds = {n1, n2}
    None = None
    CONNECT_SOFTBUS_RETRY_TIMES = 1
    RETRY_REGISTER_CALLBACK_TIMES = 2
    Missions <- TwoMissions
    Readers = {r1}
    MAX_CACHED_ITEM = 1
    MaxVersion = 3
    Budgets <- EachBudget
SYMMETRY SameNetIds
INVARIANTS
    
    DeviceTracked
CHECK_DEADLOCK FALSE
