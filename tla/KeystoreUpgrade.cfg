CONSTANTS
    Files = {f, g}
    Vals = {a, b}
    Pws = {p, q}
    MaxKeys = 3
    OldMaster = TRUE
SPECIFICATION KeystoreSpec
INVARIANT KeptRecoverable
CHECK_DEADLOCK TRUE
