SPECIFICATION Spec
CONSTANTS
    Apps <- TwoApps
    Threads = {t1, t2}
    MAX_TOKEN_NUM = 3
    MAX_REGISTER_NUM = 2
    Ready <- ReadyApps
    MaxCalls = 3
SYMMETRY AnyThread
INVARIANTS
    DiesOnlyByRace
    DeadAppForgotten
    
    TokensApart
CHECK_DEADLOCK FALSE
