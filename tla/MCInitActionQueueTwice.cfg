CONSTANTS
    Items <- AllActions
    Head0 = "head"
    Null = "null"
    ActionList <- List
    Trigger <- TriggerOf
    Commands <- CommandsOf
    Boot <- BootQueue
    Names = {"p", "q", "r"}
    Values = {"1", "2"}
    ReadOnly = {}
    MaxSets = 3
SPECIFICATION FairSpec
PROPERTY ImplementsFifo
