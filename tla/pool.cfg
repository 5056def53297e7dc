SPECIFICATION FairSpec
CONSTANTS
    Worker = {w1, w2, w3}
    Nobody = Nobody
    MaxTasks = 3
INVARIANTS
    TypeOK
    TakenInOrder
    NothingDropped
PROPERTIES
    QueuedTaskTaken
    ImplementsTaskQueue
