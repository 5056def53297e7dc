SPECIFICATION Spec
CONSTANTS
    n1 = n1
    n2 = n2
    n3 = n3
    k1 = k1
    k2 = k2
    f1 = f1
    NoFrame = NoFrame
    Node = {n1, n2}
    Key = {k1}
    Frame = {f1, f2}
    Router <- Same2
    Score <- Scores2
    OnDisk <- Used
    DbMayFail = FALSE
    MaxRequests = 3
INVARIANTS
    ReadsAcknowledged
PROPERTIES
    OneStore
CHECK_DEADLOCK FALSE
