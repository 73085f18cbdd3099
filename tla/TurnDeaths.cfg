CONSTANTS
    a = a  b = b  n1 = n1  n2 = n2
    Msg = {1,2}
    Label = {a}
    FirstLabel = a
    Node = {n1, n2}
    Carries <- BothShareA
    Mortal = {n1}
    Pausing = {}
    Warm = {n1}
    Op = {o1, o2}
    MaxId = 3
    MaxCrashes = 0
    MaxRelabels = 0
    MaxIndexLapses = 0
    MaxSilences = 0
    InOrder = FALSE
    SlowOps = FALSE
    NoNode = NoNode  NoRef = NoRef  NoOp = NoOp
SPECIFICATION Spec
SYMMETRY Symmetric
CHECK_DEADLOCK FALSE
INVARIANTS NoMessageLost
PROPERTIES FinishedRunsOnce
