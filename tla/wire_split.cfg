SPECIFICATION FairSpec
CONSTANTS
    Base = 4
    Text = {2, 3}
    Message <- Messages
    PingBytes <- Ping
    MAX_MESSAGE_SIZE = 12
    Fragmented = TRUE
    MaxMessages = 2
PROPERTIES
    WholeMessages
CHECK_DEADLOCK FALSE
