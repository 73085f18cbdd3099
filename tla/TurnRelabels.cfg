CONSTANTS
    a = a  b = b  n1 = n1  n2 = n2
    Msg = {1,2}
    Label = {a, b}
    FirstLabel = a
    Node = {n1}
    Carries <- OneServesBoth
    Mortal = {}
    Pausing = {}
    Warm = {}
    Op = {o1}
    MaxId = 4
    MaxCrashes = 0
    MaxRelabels = 2
    MaxIndexLapses = 0
    MaxSilences = 0
    InOrder = TRUE
    SlowOps = FALSE
    NoNode = NoNode  NoRef = NoRef  NoOp = NoOp
SPECIFICATION Spec
SYMMETRY Symmetric
CHECK_DEADLOCK FALSE
INVARIANTS RedispatchedOnce
