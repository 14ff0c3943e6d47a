SPECIFICATION FairSpec
CONSTANTS
    Interval = 15
    IdlePoll = 1
    BackoffInitial = 1
    BackoffMax = 15
    CallTime = 5
    RconTime = 10
    VerifyTime = 13
    BusyTime = 30
    RestartDelay = 5
    Faults = {"network", "refusal", "crash", "window"}
INVARIANTS
    TypeOK
    
    StopLatency
PROPERTIES
    ClaimsAreAnnounced
    StopIsHeeded
