CONSTANTS
    Items <- AllActions
    Head0 = "head"
    Null = "null"
    Readers = {"r"}
    Names = {"ro.x", "y"}
    ReadOnly = {"ro.x"}
    Bytes = {"a", "b"}
    Nul = "nul"
    Values <- AreaValues
    PropValueMax = 3
    CountMax = 2
    Half = 3
    MaxSets = 4
    Services = {"sm"}
    Oneshot = {}
    RcDisabled = {}
    Critical = {"sm"}
    SigTerm = {}
    Class <- OneClass
    OnRestart <- NoRestarts
    BackOff = 1
    CrashWindow = 4
    CrashMax = 2
    PipeCap = 1
    ReadSize = 1
    MaxRequests = 1
    MaxExits = 6
    MaxForkFails = 0
SPECIFICATION MCSpec
CHECK_DEADLOCK FALSE
INVARIANT FiredOnce
INVARIANT RebootJustified
INVARIANT ReadIsCurrent
 
 
INVARIANT RefusedOnlyIfNowhere
 
INVARIANT TreeExact
PROPERTY ImplementsFifo
PROPERTY ReadsReturn
 
