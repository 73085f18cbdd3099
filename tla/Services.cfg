CONSTANTS
    Mentions = {1}  Plains = {2}  Colleagues = {3}
    MentionCopies = {"app", "msg"}  OtherCopies = {"msg"}
    StartRows = {"none", "in", "out"}  MaxReadFaults = 1
    UMsg = {"m1", "m2"}  Fp = {0, 1}
    MaxInst = 3  MaxChecks = 1  MaxLsFaults = 2
    AMsg = {1, 2, 3}  AJob = {1, 2, 3}
    MaxAborts = 2  MaxTimeouts = 1
    MbCall = {"c1", "c2", "c3"}  Listing = {"c3"}  ThreadOf <- MCThreadOf
    SessionConcurrency = 1  OwnerConcurrency = 2
    MaxSessions = 2  MaxExpiries = 1  MaxMbFaults = 1
    CrCall = {"c1", "c2", "c3"}  ReplicaOf <- MCReplicaOf  Reports = {0, 1}
    MaxAges = 1  MaxConnects = 1  MaxCrFaults = 1  MaxCrLapses = 0
    CReplica = {"g1", "g2"}
    MaxTime = 1  MaxRuns = 2  MaxEdits = 1  MaxCronFaults = 2
    PassRun = {"nightly", "quiet"}  CheckRun = {"check"}  Nightly = "nightly"
    Limit = 3  Estimate <- MCEstimate  TurnCosts = {1, 2}  TurnCap = 2  MaxBudgetFaults = 2
SPECIFICATION ServicesSpec
CHECK_DEADLOCK FALSE
INVARIANTS ServicesTypeOK  FlagSkipsItsTurn AtMostOnce SharedIsCounted OneGrantPerExpiry OccurrencesRunOnce 
 
