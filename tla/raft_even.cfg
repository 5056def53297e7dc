SPECIFICATION Spec
CONSTANTS
    n1 = n1
    n2 = n2
    n3 = n3
    n4 = n4
    Node = {n1, n2, n3, n4}
    Nil = Nil
    Command = {x}
    Peers <- Mesh4
    Candidates = {n1}
    MaxTerm = 1
    MaxLog = 1
    MaxInFlight = 1
    MaxRestarts = 0
PROPERTIES
    CommitBacked
