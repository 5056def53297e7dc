SPECIFICATION FairSpec
CONSTANTS
    n1 = n1
    n2 = n2
    n3 = n3
    k1 = k1
    k2 = k2
    f1 = f1
    NoFrame = NoFrame
    Node = {n1, n2, n3}
    Key = {k1, k2}
    Frame = {f1}
    Router <- Ring3
    Score <- Scores3
    OnDisk <- Used
    DbMayFail = TRUE
    MaxRequests = 2
INVARIANTS
    TypeOK
    NoRevisit
PROPERTIES
    WorkersFree
CHECK_DEADLOCK FALSE
