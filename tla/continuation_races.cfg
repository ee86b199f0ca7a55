\* Two requests for one mission in any interleaving, answers as late as they like.
SPECIFICATION Spec
CONSTANTS
    r1 = r1
    r2 = r2
    r3 = r3
    m1 = m1
    d1 = d1
    d2 = d2
    Missions = {m1}
    Requests = {r1, r2}
    Devices = {d1, d2}
    MissionOf <- RacesMissionOf
    DeviceOf <- RacesDeviceOf
    Handler = Handler
    None = None
    Serial = FALSE
    Overlap = TRUE
INVARIANTS
    TablesOfOneRequest
    CleanedOnlyAfterSuccess
    ToldOnce

    
CHECK_DEADLOCK FALSE
