CONSTANTS
    A = A  B = B  None = None
    GateReplica = {A, B}  Clicks = {1, 2}
    GateKinds = {"perm", "approval", "permPoll", "approvalPoll", "connect"}
    HasBus = TRUE  Lossy = FALSE  Purges = TRUE  MaxCrash = 1  NoReplica = None
    r1 = r1  r2 = r2  o1 = o1  NoO = NoO
    PReplica = {r1, r2}  POper = {o1}  NoOper = NoO
    PMsg = {1}  PReply = {9}
    MaxRequests = 2  MaxPubLost = 1
SPECIFICATION GatewaySpec
CHECK_DEADLOCK FALSE
INVARIANTS GatesEndOnce AskersAnswered
PROPERTIES ImplementsDecideOnce DeferredReplaysOnce ToldReplicaHolds
