CONSTANTS
    fileA = fileA
    fileB = fileB
    valA = valA
    valB = valB
    pwA = pwA
    pwB = pwB
    Backends = {"early", "autosleep", "wakeup", "none"}
    MaxCalls = 4
    MaxEvents = 2
    MaxFails = 2
    Files = {fileA, fileB}
    Vals = {valA, valB}
    Pws = {pwA, pwB}
    MaxKeys = 3
    OldMaster = FALSE
    Servers = {"s", "t"}
    Addrs = {1, 2}
    Offered <- Offers
    MaxDoublings = 1
    MaxStrays = 1
    Transports = {1}
    Socks = {1, 2, 3}
    MaxOpens = 3
SPECIFICATION MCSpec
CHECK_DEADLOCK FALSE
 
 
 
INVARIANT WatchExact
INVARIANT KeysKept
 
 
INVARIANT FreedAlone
INVARIANT ConfiguredIsPromised
INVARIANT AwakeWhenOff
PROPERTY NoLostWakeup
