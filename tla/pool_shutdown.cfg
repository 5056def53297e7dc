SPECIFICATION TasksEndSpec
CONSTANTS
    Worker = {w1, w2, w3}
    Nobody = Nobody
    MaxTasks = 1
PROPERTIES
    ShutdownCompletes
