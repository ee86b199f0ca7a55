\* A start and a continuation, installed on a device each that may go offline.
SPECIFICATION FairSpec
CONSTANTS
    t1 = t1
    t2 = t2
    d1 = d1
    d2 = d2
    Tasks = {t1, t2}
    Devices = {d1, d2}
    Continuing = {t2}
    DeviceOf <- RacesDeviceOf
    Handler = Handler
    None = None
INVARIANTS
    ToldOnce
    ToldOkIfStarted
    EveryTaskIsTimed
    MissionForgotten
PROPERTIES
    EveryoneLearns
CHECK_DEADLOCK FALSE
