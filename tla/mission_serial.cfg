\* One client with two applications; calls and failures one at a time.
SPECIFICATION FairSpec
CONSTANTS
    c1 = c1
    a1 = a1
    a2 = a2
    c2 = c2
    None = None
    Clients = {c1}
    Apps = {a1, a2}
    ClientOf <- OneClient
    MaxRetryTimes = 2
    Overlaps = {{}}
    AmsFails = TRUE
    MaxVersion = 0
    MaxQueue = 2
    MaxDeaths = 2
    MaxDowns = 1
 
PROPERTY Rejoins
CHECK_DEADLOCK FALSE
