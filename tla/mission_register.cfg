\* Two clients with an application each; calls overlap, or links fail at any moment.
SPECIFICATION Spec
CONSTANTS
    c1 = c1
    a1 = a1
    a2 = a2
    c2 = c2
    None = None
    Clients = {c1, c2}
    Apps = {a1, a2}
    ClientOf <- TwoClients
    MaxRetryTimes = 1
    Overlaps = {{"calls"}, {"failures"}}
    AmsFails = FALSE
    MaxVersion = 0
    MaxQueue = 2
    MaxDeaths = 0
    MaxDowns = 1
INVARIANT RegisteredWhileSyncing
CHECK_DEADLOCK FALSE
