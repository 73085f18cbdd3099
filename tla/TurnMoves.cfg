CONSTANTS
    a = a  b = b  n1 = n1  n2 = n2
    Msg = {1,2}
    Label = {a, b}
    FirstLabel = a
    Node = {n1, n2}
    Carries <- OneLabelEach
    Mortal = {}
    Pausing = {n1}
    Warm = {n1}
    Op = {o1}
    MaxId = 3
    MaxCrashes = 0
    MaxRelabels = 1
    MaxIndexLapses = 1
    MaxSilences = 1
    InOrder = TRUE
    SlowOps = FALSE
    NoNode = NoNode  NoRef = NoRef  NoOp = NoOp
SPECIFICATION Spec
CHECK_DEADLOCK FALSE
INVARIANTS NoMessageLost SendersCoverTurn
VIEW MessagesView
