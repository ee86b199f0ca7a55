CONSTANTS
    c1 = c1  c2 = c2  c3 = c3  p1 = p1  p2 = p2  u1 = u1  t1 = t1  t2 = t2
    Devices = {d1}
    Connects = {c1, c2, c3}
    Processes = {p1, p2}
    Uids = {u1}
    Owner <- OwnerOfThree
    UidOf <- UidDef
    Threads = {t1, t2}
    Handler = handler
    None = none
    MaxConnect = 1
    RetryTimes = 1
    MaxWrappers = 1
    MaxDowns = 1
    MaxDeaths = 1
    Serial = FALSE
    RpcTimeouts = FALSE
SPECIFICATION Spec
INVARIANTS CounterAgrees CallerReportsAgree LimitOvershoot OfflineLeavesNothing
            EveryConnectWatched
CHECK_DEADLOCK FALSE
SYMMETRY Symmetric
