CONSTANTS
    Services = {"sm", "zyg"}
    Oneshot <- OneshotSet
    RcDisabled <- OneshotSet
    Critical <- CriticalSet
    SigTerm <- SigTermSet
    Class <- ClassOf
    OnRestart <- Restarts
    BackOff = 2
    CrashWindow = 3
    CrashMax = 1
    PipeCap = 2
    ReadSize = 1
    MaxRequests = 2
    MaxExits = 1
    MaxForkFails = 0
SPECIFICATION FairSpec
PROPERTY ExitsAreReaped
PROPERTY RestartHappens
