CONSTANTS
    Services = {"sm", "pppd"}
    Oneshot <- OneshotSet
    RcDisabled <- OneshotSet
    Critical <- CriticalSet
    SigTerm <- SigTermSet
    Class <- ClassOf
    OnRestart <- Restarts
    BackOff = 2
    CrashWindow = 3
    CrashMax = 1
    PipeCap = 2
    ReadSize = 1
    MaxRequests = 2
    MaxExits = 2
    MaxForkFails = 1
SPECIFICATION Spec
INVARIANT FlagsConsistent
INVARIANT ZombieNoticed
INVARIANT ReportTruthful
PROPERTY StaysDown
PROPERTY ImplementsStatus
