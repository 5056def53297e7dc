SPECIFICATION FairSpec
CONSTANTS
    n1 = n1
    n2 = n2
    n3 = n3
    n4 = n4
    Node = {n1, n2, n3}
    Nil = Nil
    Command = {x}
    Peers <- Mesh3
    Candidates = {n1, n2}
    MaxTerm = 2
    MaxLog = 0
    MaxInFlight = 2
    MaxRestarts = 0
INVARIANTS
    TypeOK
    VoteOnce
    LeaderWonItsTerm
    VoteRemembered
    WonWithVotes
    SplitNeedsOldVote
PROPERTIES
    MutexReleased
