CONSTANTS
    a = a  b = b  n1 = n1  n2 = n2
    Msg = {1}
    Label = {a, b}
    FirstLabel = a
    Node = {n1, n2}
    Carries <- BothServeBoth
    Mortal = {}
    Pausing = {n1}
    Warm = {n1}
    Op = {o1, o2}
    MaxId = 4
    MaxCrashes = 0
    MaxRelabels = 2
    MaxIndexLapses = 0
    MaxSilences = 1
    InOrder = FALSE
    SlowOps = FALSE
    NoNode = NoNode  NoRef = NoRef  NoOp = NoOp
SPECIFICATION FairSpec
CHECK_DEADLOCK FALSE
INVARIANTS TypeOK ClosesAfterRun
PROPERTIES EveryFollowerEnds EveryMessageSettles
