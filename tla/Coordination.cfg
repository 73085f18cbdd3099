CONSTANTS
    c1 = c1  c2 = c2  c3 = c3  c4 = c4
    Call = {c1, c2, c3, c4}  Owner = {c1, c2, c3, c4}  OwnerOf <- MCUniqueOwner
    NoOwner = NoOwner  NoCall = NoCall  MaxLapses = 2
    r1 = r1  r2 = r2  Replica = {r1, r2}  NoReplica = NoReplica
    MaxInFlight = 1  MaxTerms = 2  MaxLeaseLapses = 1  MaxErrors = 1
    A = A  B = B  FReplica = {A}
    MaxJob = 3  MaxLost = 1  MaxMessages = 4  Pipelined = TRUE  Lag = FALSE
    s1 = s1  NoN = NoN
    RNode = {1, 2}  RSess = {s1}  RJob = {1, 2, 3}  NoRNode = NoN  SlowDispatch = FALSE
    MaxDeaths = 1  MaxQuiets = 1
SPECIFICATION CoordinationSpec
INVARIANTS MutexUntilLapse AbortMeansLost LeadersWorkAlone  WorkListCovers
PROPERTIES  LocksRecover LeadershipMovesOn FirstOutcomeShown OneRunner RoutingHeals
