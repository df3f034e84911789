CONSTANTS
    c1 = c1
    h1 = h1
    h2 = h2
    b1 = b1
    Conns = {c1}
    Handlers = {h1, h2}
    Broadcasters = {b1}
    Cap = 1
    MaxCommands = 2
    MaxFails = 1
    Announces = TRUE
    Volumes <- OneVolume
    Blocks = 2
    Passwords = {"p", "q"}
    WipeOnFail = {TRUE, FALSE}
    MaxKeys = 2
    MaxWrong = 2
    MaxCallFails = 3
    MaxCuts = 2
    MaxBadBoots = 0
    MaxPutFails = 0
SPECIFICATION MCSpec
CHECK_DEADLOCK FALSE
INVARIANT UndoRestores
