SPECIFICATION FairSpec
CONSTANTS
  Ids = {1, 2}
  MaxReqs = 3
  MaxStops = 2
  MaxFails = 1
  PollSize = 2
  Spare = 1
  FirstLive = {0, 1}
CHECK_DEADLOCK FALSE
PROPERTY StoppedIsDeleted
