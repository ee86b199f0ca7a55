CONSTANTS
    c1 = c1  d1 = d1  d2 = d2  t1 = t1  t2 = t2
    Devices = {d1, d2}
    Connects = {c1}
    Threads = {t1, t2}
    None = none
    MaxWrappers = 2
    MaxCalls = 3
    MaxDowns = 1
    Flaky = {d1}
SPECIFICATION Spec
INVARIANTS EveryCallWatched  DeadCallerForgotten
CHECK_DEADLOCK FALSE
