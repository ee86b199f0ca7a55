CONSTANTS
    c1 = c1  c2 = c2  c3 = c3  p1 = p1  p2 = p2  u1 = u1  t1 = t1  t2 = t2
    Devices = {d1, d2}
    Connects = {c1, c2}
    Processes = {p1, p2}
    Uids = {u1}
    Owner <- SharedOwner
    UidOf <- UidDef
    Threads = {t1, t2}
    Handler = handler
    None = none
    MaxConnect = 2
    RetryTimes = 2
    MaxWrappers = 2
    MaxDowns = 0
    MaxDeaths = 1
    Serial = TRUE
    RpcTimeouts = FALSE
SPECIFICATION FairSpec
INVARIANTS TablesAgree CalleeReportsAgree 
PROPERTIES DeadProcessForgotten
CHECK_DEADLOCK FALSE
