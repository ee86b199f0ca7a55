\* One client with two applications; calls overlap, an application may die at any moment.
SPECIFICATION Spec
CONSTANTS
    c1 = c1
    a1 = a1
    a2 = a2
    c2 = c2
    None = None
    Clients = {c1}
    Apps = {a1, a2}
    ClientOf <- OneClient
    MaxRetryTimes = 1
    Overlaps = {{"calls", "failures"}}
    AmsFails = FALSE
    MaxVersion = 2
    MaxQueue = 2
    MaxDeaths = 0
    MaxDowns = 0
SYMMETRY Symmetric
INVARIANTS CacheFresh 
CHECK_DEADLOCK FALSE
