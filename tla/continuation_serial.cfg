\* Three requests for one mission, one after the other; no answer races the timeout.
SPECIFICATION FairSpec
CONSTANTS
    r1 = r1
    r2 = r2
    r3 = r3
    m1 = m1
    d1 = d1
    d2 = d2
    Missions = {m1}
    Requests = {r1, r2, r3}
    Devices = {d1, d2}
    MissionOf <- RacesMissionOf
    DeviceOf <- RacesDeviceOf
    Handler = Handler
    None = None
    Serial = TRUE
    Overlap = FALSE
INVARIANTS
    
    GoesItsOwnWay
    NoStrayTimer
PROPERTIES
    AcceptedIsTold
CHECK_DEADLOCK FALSE
