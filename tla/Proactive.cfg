CONSTANTS
    Scheduler = {"g1", "g2"}  Poll = 2  Expire = 3  BusyRetry = 1  StaleClaim = 1  Quiet = {3}
    Overlap = FALSE  MaxNow = 9  LastTrouble = 3  MaxRedates = 1  MaxHolds = 1  MaxMishaps = 1
    HbLeader = {"g1"}  Item = {1, 2}  Acts = {2}  Lag = 1  Margin = 1
    MaxItems = 2  MaxPosts = 1  MaxClock = 3  MaxNotNow = 1  MaxHbFaults = 1
    Waker = {"round"}  WakeRun = {1, 2}  MaxSleep = 3  Stale = 2  TurnLimit = 1
    MaxSlots = 3  MaxAsks = 1  MaxJobEdits = 1  MaxWakeFaults = 1
SPECIFICATION ProactiveSpec
CHECK_DEADLOCK FALSE
INVARIANTS ProactiveTypeOK 
  
