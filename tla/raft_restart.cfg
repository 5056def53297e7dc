SPECIFICATION Spec
SYMMETRY Symmetry2
CONSTANTS
    n1 = n1
    n2 = n2
    n3 = n3
    n4 = n4
    Node = {n1, n2}
    Nil = Nil
    Command = {x, y}
    Peers <- Mesh2
    Candidates = {n1, n2}
    MaxTerm = 2
    MaxLog = 2
    MaxInFlight = 2
    MaxRestarts = 1
INVARIANTS
    IndexSafety
    AppliedInOrder
    MergeFollowsLeader
PROPERTIES
    NeverGoesBack
